---- MODULE Spec2Model ----
(***************************************************************************)
(* Model of the presubmit "query" command of vanadium/go.devtools:         *)
(* runQuery, the clsSender dispatch loop, the outdated-build detector and  *)
(* the helpers they use.                                                   *)
(*                                                                         *)
(* Representation.  A ref string "refs/changes/NN/NNNN/P" is the sequence  *)
(* of its numeric "/"-separated parts <<NN, NNNN, P>> (the constant prefix *)
(* "refs/changes" is left out, so the five parts ParseRefString expects    *)
(* are three here).  A refs string "ref:ref:..." is the sequence of its    *)
(* refs; the empty string is <<>>.  A Go map is a function on its keys.    *)
(***************************************************************************)
EXTENDS Integers, Sequences, FiniteSets, TLC

VARIABLES
    obRefs,      \* isBuildOutdated: the curRefs argument
    obNewCLs,    \* isBuildOutdated: the newCLs argument
    obResult,    \* isBuildOutdated: [called, outdated, err], called FALSE before the call
    logFile,     \* the persisted log: one ref per line
    queued,      \* Jenkins: queued builds of the presubmit job, [id, refs]
    ongoing,     \* Jenkins: ongoing builds of the presubmit job, [id, building, refs]
    nextId,      \* Jenkins: id of the next build
    pc,          \* where runQuery stands
    runs,        \* runs started so far
    lastBuild,   \* runQuery: result of the last completed build while it is examined
    prevCLsMap,  \* runQuery: the registry read from the log
    curCLs,      \* runQuery: the query result
    clLists,     \* clsSender.clLists
    projects,    \* clsSender.projects: [nil, names]
    idx,         \* index of the next change-group of the dispatch loop
    clsSent,     \* clsSender.clsSent
    numSentCLs,  \* runQuery: the count the deferred print reports
    events,      \* external calls of the current run, in order
    ret,         \* what the run returned: "none", "nil", "err" or "panic"
    failedAt,    \* the call whose error the run returned, "" when none
    logAtStart,  \* the log as it was when the current run started
    tProjects,   \* getTestsToRun on its own: the projects given
    tResult,     \* getTestsToRun on its own: [called, err, tests]
    rmResult,    \* removeOutdatedBuilds on its own: [called, errs, queued, ongoing],
                 \* the builds being those before the call
    mMessage,    \* the multi-part marker on its own: the commit message (str)
                 \* and what it was put together from
    mResult,     \* the multi-part marker on its own: [called, ok, index, total]
    snap,        \* snapshot create: the snapshot repository and where the command stands
    ls           \* snapshot list: the snapshot directory, the arguments and the output

toolVars == <<snap, ls>>

obVars == <<obRefs, obNewCLs, obResult, tProjects, tResult, rmResult, mMessage, mResult,
           snap, ls>>

jenkinsVars == <<queued, ongoing, nextId>>

runVars == <<pc, runs, lastBuild, prevCLsMap, curCLs, clLists, projects, idx,
             clsSent, numSentCLs, events, ret, failedAt, logAtStart>>

vars == <<obRefs, obNewCLs, obResult, tProjects, tResult, rmResult, mMessage, mResult,
          snap, ls, logFile, queued, ongoing, nextId,
          pc, runs, lastBuild, prevCLsMap, curCLs, clLists, projects, idx,
          clsSent, numSentCLs, events, ret, failedAt, logAtStart>>

----------------------------------------------------------------------------
(* Bounds *)

MaxPS == 2        \* patchsets range over 1..MaxPS
MaxRefs == 2      \* a build's refs string holds at most MaxRefs refs

Patchsets == 1..MaxPS

----------------------------------------------------------------------------
(* Go maps and slices *)

EmptyMap == <<>>

MapPut(m, k, v) == [x \in (DOMAIN m) \cup {k} |-> IF x = k THEN v ELSE m[x]]

Min(S) == CHOOSE x \in S : \A y \in S : x <= y

RECURSIVE SortInts(_)
SortInts(S) == IF S = {} THEN <<>> ELSE <<Min(S)>> \o SortInts(S \ {Min(S)})

\* Every map from some of CLs to patchsets.
CLMaps(CLs) == UNION { [D -> Patchsets] : D \in SUBSET CLs }

\* sortedKeys: the keys of a clNumberToPatchsetMap in ascending order.
sortedKeys(cls) == SortInts(DOMAIN cls)

----------------------------------------------------------------------------
(* Refs *)

\* Change.Reference() of patchset ps of change cl: refs/changes/<cl mod 100>/<cl>/<ps>.
RefOf(cl, ps) == <<cl % 100, cl, ps>>

\* gerrit.ParseRefString: the ref must split into the expected number of
\* parts; the change number and the patchset are the last two.
ParseRefString(ref) ==
    IF Len(ref) = 3
    THEN [ok |-> TRUE, cl |-> ref[2], patchset |-> ref[3]]
    ELSE [ok |-> FALSE, cl |-> -1, patchset |-> -1]

\* strings.Split(s, ":"): the empty string splits into one empty piece.
SplitRefs(s) == IF s = <<>> THEN << <<>> >> ELSE s

----------------------------------------------------------------------------
(* isBuildOutdated.  buildCLs is the map the function calls curCLs. *)

RECURSIVE parseBuildRefsSkippingBad(_, _, _)
parseBuildRefsSkippingBad(refs, i, buildCLs) ==
    IF i > Len(refs) THEN [ok |-> TRUE, cls |-> buildCLs]
    ELSE LET p == ParseRefString(refs[i]) IN
         IF ~p.ok THEN parseBuildRefsSkippingBad(refs, i + 1, buildCLs)
         ELSE parseBuildRefsSkippingBad(refs, i + 1, MapPut(buildCLs, p.cl, p.patchset))

\* The first loop of isBuildOutdated: the refs are parsed one by one into
\* the map of the build; the first that does not parse is the error.
RECURSIVE parseBuildRefs(_, _, _)
parseBuildRefs(refs, i, buildCLs) ==
    IF i > Len(refs) THEN [ok |-> TRUE, cls |-> buildCLs]
    ELSE LET p == ParseRefString(refs[i]) IN
         IF ~p.ok THEN [ok |-> FALSE, cls |-> EmptyMap]
         ELSE parseBuildRefs(refs, i + 1, MapPut(buildCLs, p.cl, p.patchset))

overlapOutdatedGT(buildCLs, newCLs) ==
    \E curCLNumber \in DOMAIN buildCLs :
        curCLNumber \in DOMAIN newCLs /\ newCLs[curCLNumber] > buildCLs[curCLNumber]

overlapOutdatedAnyDifference(buildCLs, newCLs) ==
    \E curCLNumber \in DOMAIN buildCLs :
        curCLNumber \notin DOMAIN newCLs \/ newCLs[curCLNumber] >= buildCLs[curCLNumber]

\* The partial-overlap branch: some change of the build is in newCLs with a
\* patchset that is not older.
overlapOutdated(buildCLs, newCLs) ==
    \E curCLNumber \in DOMAIN buildCLs :
        curCLNumber \in DOMAIN newCLs /\ newCLs[curCLNumber] >= buildCLs[curCLNumber]

sameSetOutdatedAny(buildCLs, newCLs, newCLNumbers) ==
    \E i \in 1..Len(newCLNumbers) :
        ~(newCLs[newCLNumbers[i]] < buildCLs[newCLNumbers[i]])

\* The exact-match branch: outdated unless some patchset of newCLs is older.
sameSetOutdated(buildCLs, newCLs, newCLNumbers) ==
    \A i \in 1..Len(newCLNumbers) :
        ~(newCLs[newCLNumbers[i]] < buildCLs[newCLNumbers[i]])

isBuildOutdated(curRefs, newCLs) ==
    LET parsed == parseBuildRefs(SplitRefs(curRefs), 1, EmptyMap)
        buildCLs == parsed.cls
        newCLNumbers == sortedKeys(newCLs)
    IN  IF ~parsed.ok THEN [outdated |-> FALSE, err |-> TRUE]
        ELSE IF sortedKeys(buildCLs) # newCLNumbers
        THEN [outdated |-> overlapOutdated(buildCLs, newCLs), err |-> FALSE]
        ELSE [outdated |-> sameSetOutdated(buildCLs, newCLs, newCLNumbers), err |-> FALSE]

----------------------------------------------------------------------------
(* Changes, the project/test configuration and the events of a run *)

\* An e-mail address is [user, host]; strings.ToLower works token by token.
ToLowerToken(t) == IF t = "Aaron" THEN "aaron" ELSE t

ToLower(email) == [user |-> ToLowerToken(email.user), host |-> ToLowerToken(email.host)]

\* strings.HasSuffix(email, "@google.com")
HasGoogleSuffix(email) == email.host = "google.com"

emailWhitelist ==
    { [user |-> "aaron", host |-> "azinman.com"],
      [user |-> "aaron", host |-> "empiric.al"] }

\* checkEmailAddress: from Google, or whitelisted (compared in lower case).
checkEmailAddress(email) ==
    LET fromGoogle == HasGoogleSuffix(email)
        whiteListed == \E we \in emailWhitelist : we = ToLower(email)
    IN  fromGoogle \/ whiteListed

GoogleOwner == [user |-> "dev", host |-> "google.com"]
ListedOwner == [user |-> "Aaron", host |-> "azinman.com"]
OtherOwner  == [user |-> "eve", host |-> "example.com"]

NoPart == [topic |-> "", index |-> 0, total |-> 0]

\* gerrit.Change, with the fields the query command reads.
Change(number, patchset, ref, project, owner, presubmit, part) ==
    [number |-> number, patchset |-> patchset, ref |-> ref, project |-> project,
     owner |-> owner, presubmit |-> presubmit, part |-> part]

\* Test names are sequences of character codes, so that sort.Strings has its
\* byte-wise order: "go" = <<103, 111>>, "js" = <<106, 115>>.
TestGo == <<103, 111>>
TestJs == <<106, 115>>
TestGoA == <<103, 111, 45, 97>>   \* "go-a", which sorts before "go-part0"

\* "-part" followed by the decimal digit of i (i < 10).
PartSuffix(i) == <<45, 112, 97, 114, 116, 48 + i>>

testNameWithPartSuffix(test, i) == test \o PartSuffix(i)

RECURSIVE LexLess(_, _)
LexLess(a, b) ==
    IF a = <<>> THEN b # <<>>
    ELSE IF b = <<>> THEN FALSE
    ELSE IF Head(a) # Head(b) THEN Head(a) < Head(b)
    ELSE LexLess(Tail(a), Tail(b))

RECURSIVE InsertSorted(_, _)
InsertSorted(s, x) ==
    IF s = <<>> THEN <<x>>
    ELSE IF LexLess(x, Head(s)) THEN <<x>> \o s
    ELSE <<Head(s)>> \o InsertSorted(Tail(s), x)

RECURSIVE SortStrings(_)
SortStrings(s) == IF s = <<>> THEN <<>> ELSE InsertSorted(SortStrings(Tail(s)), Head(s))

\* The configuration: project "core" has the tests go and js, go with a part
\* configuration of one part; project "tools" has the tests go-a and js;
\* project "docs" is known and has no tests; project "elsewhere" is not in
\* the manifest.
ManifestProjects == {"core", "docs"}

ConfigProjectTests(project) ==
    IF project = "core" THEN <<TestGo, TestJs>>
    ELSE IF project = "tools" THEN <<TestGoA, TestJs>>
    ELSE <<>>

ConfigTestParts(test) == IF test = TestGo THEN [nil |-> FALSE, parts |-> 1]
                         ELSE [nil |-> TRUE, parts |-> 0]

\* config.ProjectTests: the tests of the given projects, each once, sorted.
RECURSIVE ProjectTests(_)
ProjectTests(ps) ==
    IF ps = <<>> THEN <<>>
    ELSE LET rest == ProjectTests(Tail(ps))
             new == SelectSeq(ConfigProjectTests(Head(ps)),
                              LAMBDA t : \A i \in 1..Len(rest) : rest[i] # t)
         IN  SortStrings(new \o rest)

\* An external call of a run, or a line it prints.
Ev(op, group, what, refs, ok) ==
    [op |-> op, group |-> group, what |-> what, refs |-> refs, ok |-> ok,
     verified |-> FALSE, projects |-> <<>>, tests |-> <<>>, id |-> 0]

----------------------------------------------------------------------------
(* clsSender *)

isKnownProject(cl, names) == cl.project \in names

NoInfo ==
    [nil |-> FALSE, clMap |-> EmptyMap, skipPresubmitTest |-> FALSE,
     hasNonGoogleOwner |-> FALSE, projects |-> <<>>, refs |-> <<>>,
     filteredCLList |-> <<>>]

addMemberLastOptOut(r, curCL, p) ==
    [r EXCEPT !.clMap = MapPut(@, p.cl, p.patchset),
              !.skipPresubmitTest = (curCL.presubmit = "none"),
              !.hasNonGoogleOwner = ~checkEmailAddress(curCL.owner),
              !.projects = Append(@, curCL.project),
              !.refs = Append(@, curCL.ref),
              !.filteredCLList = Append(@, curCL)]

\* One member of the group folded into the result: what the body of the loop
\* of processCLList does after the ref has parsed.
addMember(r, curCL, p) ==
    [r EXCEPT !.clMap = MapPut(@, p.cl, p.patchset),
              !.skipPresubmitTest = @ \/ (curCL.presubmit = "none"),
              !.hasNonGoogleOwner = ~checkEmailAddress(curCL.owner),
              !.projects = Append(@, curCL.project),
              !.refs = Append(@, curCL.ref),
              !.filteredCLList = Append(@, curCL)]

RECURSIVE processCLs(_, _, _, _)
processCLs(curCLList, i, sprojects, r) ==
    IF i > Len(curCLList) THEN r
    ELSE LET curCL == curCLList[i] IN
         IF ~sprojects.nil /\ ~isKnownProject(curCL, sprojects.names)
         THEN processCLs(curCLList, i + 1, sprojects, r)
         ELSE LET p == ParseRefString(curCL.ref) IN
              IF ~p.ok THEN [NoInfo EXCEPT !.nil = TRUE]
              ELSE processCLs(curCLList, i + 1, sprojects, addMember(r, curCL, p))

\* processCLList: nil when a member's ref does not parse.
processCLList(curCLList, sprojects) == processCLs(curCLList, 1, sprojects, NoInfo)

RECURSIVE expandPartsExclusive(_)
expandPartsExclusive(tmpTests) ==
    IF tmpTests = <<>> THEN <<>>
    ELSE LET test == Head(tmpTests)
             parts == ConfigTestParts(test)
         IN  (IF ~parts.nil
              THEN [i \in 1..parts.parts |-> testNameWithPartSuffix(test, i - 1)]
              ELSE <<test>>) \o expandPartsExclusive(Tail(tmpTests))

\* The loop of getTestsToRun over the tests of the projects: a test with a
\* part configuration is replaced by its names with the suffixes 0..len(parts).
RECURSIVE expandParts(_)
expandParts(tmpTests) ==
    IF tmpTests = <<>> THEN <<>>
    ELSE LET test == Head(tmpTests)
             parts == ConfigTestParts(test)
         IN  (IF ~parts.nil
              THEN [i \in 1..(parts.parts + 1) |-> testNameWithPartSuffix(test, i - 1)]
              ELSE <<test>>) \o expandParts(Tail(tmpTests))

\* getTestsToRun: an error when the configuration cannot be loaded.
getTestsToRun(projs, faults) ==
    IF "config" \in faults THEN [err |-> TRUE, tests |-> <<>>]
    ELSE [err |-> FALSE, tests |-> SortStrings(expandParts(ProjectTests(projs)))]

\* removeQueuedOutdatedBuilds, the loop over the queued builds; acc holds the
\* events and the ids cancelled so far, err whether an error is returned.  A
\* build without refs ends the loop with the (nil) error of the listing.
RECURSIVE removeQueuedLoop(_, _, _, _, _, _)
removeQueuedLoop(builds, i, cls, g, faults, acc) ==
    IF i > Len(builds) THEN acc
    ELSE IF builds[i].refs = <<>> THEN acc
    ELSE IF isBuildOutdated(builds[i].refs, cls).err THEN [acc EXCEPT !.err = TRUE]
    ELSE IF ~isBuildOutdated(builds[i].refs, cls).outdated
    THEN removeQueuedLoop(builds, i + 1, cls, g, faults, acc)
    ELSE IF "cancelQueued" \in faults
    THEN [acc EXCEPT !.err = TRUE,
                     !.evs = Append(@, [Ev("cancelQueued", g, "", builds[i].refs, FALSE)
                                          EXCEPT !.id = builds[i].id])]
    ELSE removeQueuedLoop(builds, i + 1, cls, g, faults,
             [acc EXCEPT !.cancelled = @ \cup {builds[i].id},
                         !.evs = Append(@, [Ev("cancelQueued", g, "", builds[i].refs, TRUE)
                                              EXCEPT !.id = builds[i].id])])

removeQueuedOutdatedBuildsListOnly(cls, g, faults, q) ==
    [evs |-> << Ev("QueuedBuilds", g, "", <<>>, "queuedList" \notin faults) >>,
     cancelled |-> {}, err |-> "queuedList" \in faults]

\* removeQueuedOutdatedBuilds: a failed listing is the error returned.
removeQueuedOutdatedBuilds(cls, g, faults, q) ==
    IF "queuedList" \in faults
    THEN [evs |-> << Ev("QueuedBuilds", g, "", <<>>, FALSE) >>, cancelled |-> {}, err |-> TRUE]
    ELSE removeQueuedLoop(q, 1, cls, g, faults,
             [evs |-> << Ev("QueuedBuilds", g, "", <<>>, TRUE) >>, cancelled |-> {},
              err |-> FALSE])

RECURSIVE removeOngoingLoopAnyState(_, _, _, _, _, _)
removeOngoingLoopAnyState(buildInfos, i, cls, g, faults, acc) ==
    IF i > Len(buildInfos) THEN acc
    ELSE IF buildInfos[i].refs = <<>>
            \/ isBuildOutdated(buildInfos[i].refs, cls).err
            \/ ~isBuildOutdated(buildInfos[i].refs, cls).outdated
    THEN removeOngoingLoopAnyState(buildInfos, i + 1, cls, g, faults, acc)
    ELSE removeOngoingLoopAnyState(buildInfos, i + 1, cls, g, faults,
             [acc EXCEPT !.cancelled = @ \cup {buildInfos[i].id},
                         !.evs = Append(@, [Ev("cancelOngoing", g, "", buildInfos[i].refs, TRUE)
                                              EXCEPT !.id = buildInfos[i].id])])

\* removeOngoingOutdatedBuilds, the loop over the ongoing builds: a build
\* that is not building, has no refs or whose refs do not parse is passed over.
RECURSIVE removeOngoingLoop(_, _, _, _, _, _)
removeOngoingLoop(buildInfos, i, cls, g, faults, acc) ==
    IF i > Len(buildInfos) THEN acc
    ELSE IF ~buildInfos[i].building
    THEN removeOngoingLoop(buildInfos, i + 1, cls, g, faults, acc)
    ELSE IF buildInfos[i].refs = <<>>
            \/ isBuildOutdated(buildInfos[i].refs, cls).err
            \/ ~isBuildOutdated(buildInfos[i].refs, cls).outdated
    THEN removeOngoingLoop(buildInfos, i + 1, cls, g, faults, acc)
    ELSE IF "cancelOngoing" \in faults
    THEN [acc EXCEPT !.err = TRUE,
                     !.evs = Append(@, [Ev("cancelOngoing", g, "", buildInfos[i].refs, FALSE)
                                          EXCEPT !.id = buildInfos[i].id])]
    ELSE removeOngoingLoop(buildInfos, i + 1, cls, g, faults,
             [acc EXCEPT !.cancelled = @ \cup {buildInfos[i].id},
                         !.evs = Append(@, [Ev("cancelOngoing", g, "", buildInfos[i].refs, TRUE)
                                              EXCEPT !.id = buildInfos[i].id])])

removeOngoingOutdatedBuilds(cls, g, faults, og) ==
    IF "ongoingList" \in faults
    THEN [evs |-> << Ev("OngoingBuilds", g, "", <<>>, FALSE) >>, cancelled |-> {}, err |-> TRUE]
    ELSE removeOngoingLoop(og, 1, cls, g, faults,
             [evs |-> << Ev("OngoingBuilds", g, "", <<>>, TRUE) >>, cancelled |-> {},
              err |-> FALSE])

removeOutdatedBuildsUntilError(cls, g, faults, q, og) ==
    LET rq == removeQueuedOutdatedBuilds(cls, g, faults, q)
        ro == IF rq.err THEN [evs |-> <<>>, cancelled |-> {}, err |-> FALSE]
              ELSE removeOngoingOutdatedBuilds(cls, g, faults, og)
    IN  [evs |-> rq.evs \o ro.evs,
         errs |-> (IF rq.err THEN 1 ELSE 0) + (IF ro.err THEN 1 ELSE 0),
         queued |-> SelectSeq(q, LAMBDA b : b.id \notin rq.cancelled),
         ongoing |-> [i \in 1..Len(og) |->
                        IF og[i].id \in ro.cancelled
                        THEN [og[i] EXCEPT !.building = FALSE] ELSE og[i]]]

\* removeOutdatedBuilds: the queued pass, then the ongoing pass, the errors of
\* both collected.  A cancelled queued build leaves the queue; a cancelled
\* ongoing build stops building.
removeOutdatedBuilds(cls, g, faults, q, og) ==
    LET rq == removeQueuedOutdatedBuilds(cls, g, faults, q)
        ro == removeOngoingOutdatedBuilds(cls, g, faults, og)
    IN  [evs |-> rq.evs \o ro.evs,
         errs |-> (IF rq.err THEN 1 ELSE 0) + (IF ro.err THEN 1 ELSE 0),
         queued |-> SelectSeq(q, LAMBDA b : b.id \notin rq.cancelled),
         ongoing |-> [i \in 1..Len(og) |->
                        IF og[i].id \in ro.cancelled
                        THEN [og[i] EXCEPT !.building = FALSE] ELSE og[i]]]

\* addPresubmitTestBuild: REFS and PROJECTS colon-joined, TESTS space-joined.
addPresubmitTestBuildNoTests(cls, tests, g, faults, q, nid) ==
    LET refs == [i \in 1..Len(cls) |-> cls[i].ref]
        projs == [i \in 1..Len(cls) |-> cls[i].project]
        ev(ok) == [Ev("AddBuild", g, "", refs, ok) EXCEPT !.projects = projs,
                                                         !.id = IF ok THEN nid ELSE 0]
    IN  IF "add" \in faults
        THEN [err |-> TRUE, evs |-> << ev(FALSE) >>, queued |-> q, nextId |-> nid]
        ELSE [err |-> FALSE, evs |-> << ev(TRUE) >>,
              queued |-> Append(q, [id |-> nid, refs |-> refs]), nextId |-> nid + 1]

addPresubmitTestBuild(cls, tests, g, faults, q, nid) ==
    LET refs == [i \in 1..Len(cls) |-> cls[i].ref]
        projs == [i \in 1..Len(cls) |-> cls[i].project]
        ev(ok) == [Ev("AddBuild", g, "", refs, ok) EXCEPT !.projects = projs, !.tests = tests,
                                                         !.id = IF ok THEN nid ELSE 0]
    IN  IF "add" \in faults
        THEN [err |-> TRUE, evs |-> << ev(FALSE) >>, queued |-> q, nextId |-> nid]
        ELSE [err |-> FALSE, evs |-> << ev(TRUE) >>,
              queued |-> Append(q, [id |-> nid, refs |-> refs]), nextId |-> nid + 1]

\* postMessage through clsSender.postMessageFn.
postMessage(what, refs, verified, g, faults) ==
    [err |-> "post" \in faults,
     evs |-> << [Ev("post", g, what, refs, "post" \notin faults) EXCEPT !.verified = verified] >>]

sendOneOwnerFirst(curCLList, g, sprojects, faults, q, og, nid) ==
    LET clListInfo == processCLList(curCLList, sprojects)
        out(outcome, evs) ==
            [outcome |-> outcome, evs |-> evs, queued |-> q, ongoing |-> og,
             nextId |-> nid, sent |-> 0]
        printed(line) == << Ev("print", g, line, clListInfo.refs, TRUE) >>
        t == getTestsToRun(clListInfo.projects, faults)
        skipped == postMessage("Presubmit tests skipped", clListInfo.refs, TRUE, g, faults)
        noTests == postMessage("No tests found", clListInfo.refs, TRUE, g, faults)
        manual == postMessage("manual trigger link", clListInfo.refs, FALSE, g, faults)
        rm == removeOutdatedBuilds(clListInfo.clMap, g, faults, q, og)
        add == addPresubmitTestBuild(clListInfo.filteredCLList, t.tests, g, faults,
                                     rm.queued, nid)
        called == << [Ev("removeOutdated", g, "", clListInfo.refs, rm.errs = 0)
                        EXCEPT !.id = rm.errs] >>
    IN  IF clListInfo.nil THEN out("panic", <<>>)
        ELSE IF Len(clListInfo.filteredCLList) = 0 THEN out("SKIP-empty", printed("SKIP-empty"))
        ELSE IF clListInfo.hasNonGoogleOwner
        THEN IF manual.err THEN out("err", manual.evs)
             ELSE out("SKIP-nongoogle", manual.evs \o printed("SKIP-nongoogle"))
        ELSE IF clListInfo.skipPresubmitTest
        THEN IF skipped.err THEN out("err", skipped.evs)
             ELSE out("SKIP-none", skipped.evs \o printed("SKIP-none"))
        ELSE IF t.err THEN out("err", << Ev("LoadConfig", g, "", clListInfo.refs, FALSE) >>)
        ELSE IF Len(t.tests) = 0
        THEN IF noTests.err THEN out("err", noTests.evs)
             ELSE out("SKIP-notests", noTests.evs \o printed("SKIP-notests"))
        ELSE IF clListInfo.hasNonGoogleOwner
        THEN IF manual.err THEN out("err", manual.evs)
             ELSE out("SKIP-nongoogle", manual.evs \o printed("SKIP-nongoogle"))
        ELSE [outcome |-> IF add.err THEN "FAIL" ELSE "PASS",
              evs |-> called \o rm.evs \o add.evs
                      \o printed(IF add.err THEN "FAIL" ELSE "PASS"),
              queued |-> add.queued, ongoing |-> rm.ongoing, nextId |-> add.nextId,
              sent |-> IF add.err THEN 0 ELSE Len(clListInfo.filteredCLList)]

\* One iteration of the loop of sendCLListsToPresubmitTest on group g.
\* outcome: "panic" (nil dereferenced), "err" (the loop returns the error),
\* or the line printed ("SKIP-empty", "SKIP-none", "SKIP-notests",
\* "SKIP-nongoogle", "PASS", "FAIL"), after which the loop continues.
sendOne(curCLList, g, sprojects, faults, q, og, nid) ==
    LET clListInfo == processCLList(curCLList, sprojects)
        out(outcome, evs) ==
            [outcome |-> outcome, evs |-> evs, queued |-> q, ongoing |-> og,
             nextId |-> nid, sent |-> 0]
        printed(line) == << Ev("print", g, line, clListInfo.refs, TRUE) >>
        t == getTestsToRun(clListInfo.projects, faults)
        skipped == postMessage("Presubmit tests skipped", clListInfo.refs, TRUE, g, faults)
        noTests == postMessage("No tests found", clListInfo.refs, TRUE, g, faults)
        manual == postMessage("manual trigger link", clListInfo.refs, FALSE, g, faults)
        rm == removeOutdatedBuilds(clListInfo.clMap, g, faults, q, og)
        add == addPresubmitTestBuild(clListInfo.filteredCLList, t.tests, g, faults,
                                     rm.queued, nid)
        called == << [Ev("removeOutdated", g, "", clListInfo.refs, rm.errs = 0)
                        EXCEPT !.id = rm.errs] >>
    IN  IF clListInfo.nil THEN out("panic", <<>>)
        ELSE IF Len(clListInfo.filteredCLList) = 0 THEN out("SKIP-empty", printed("SKIP-empty"))
        ELSE IF clListInfo.skipPresubmitTest
        THEN IF skipped.err THEN out("err", skipped.evs)
             ELSE out("SKIP-none", skipped.evs \o printed("SKIP-none"))
        ELSE IF t.err THEN out("err", << Ev("LoadConfig", g, "", clListInfo.refs, FALSE) >>)
        ELSE IF Len(t.tests) = 0
        THEN IF noTests.err THEN out("err", noTests.evs)
             ELSE out("SKIP-notests", noTests.evs \o printed("SKIP-notests"))
        ELSE IF clListInfo.hasNonGoogleOwner
        THEN IF manual.err THEN out("err", manual.evs)
             ELSE out("SKIP-nongoogle", manual.evs \o printed("SKIP-nongoogle"))
        ELSE [outcome |-> IF add.err THEN "FAIL" ELSE "PASS",
              evs |-> called \o rm.evs \o add.evs
                      \o printed(IF add.err THEN "FAIL" ELSE "PASS"),
              queued |-> add.queued, ongoing |-> rm.ongoing, nextId |-> add.nextId,
              sent |-> IF add.err THEN 0 ELSE Len(clListInfo.filteredCLList)]

----------------------------------------------------------------------------
(* The gerrit package: the log and the diff *)

RECURSIVE readLogLines(_, _, _)
readLogLines(lines, i, cls) ==
    IF i > Len(lines) THEN [err |-> FALSE, cls |-> cls]
    ELSE LET p == ParseRefString(lines[i]) IN
         IF ~p.ok THEN [err |-> TRUE, cls |-> EmptyMap]
         ELSE readLogLines(lines, i + 1, MapPut(cls, p.cl, p.patchset))

\* gerrit.ReadLog: the change number -> patchset mapping of the log's lines;
\* a missing (empty) log is the empty mapping, a malformed line an error.
ReadLog(file) == readLogLines(file, 1, EmptyMap)

WriteLogAppend(file, cls) == file \o [i \in 1..Len(cls) |-> cls[i].ref]

\* gerrit.WriteLog: the log rewritten as the refs of the given changes.
WriteLog(file, cls) == [i \in 1..Len(cls) |-> cls[i].ref]

isNewCLNotHigher(prev, c) == c.number \notin DOMAIN prev \/ prev[c.number] <= c.patchset

\* A change is new when the previous registry lacks it or has it at a
\* strictly lower patchset.
isNewCL(prev, c) == c.number \notin DOMAIN prev \/ prev[c.number] < c.patchset

withPart(cls) == SelectSeq(cls, LAMBDA c : c.part.total # 0)

withoutPart(cls) == SelectSeq(cls, LAMBDA c : c.part.total = 0)

\* The members of a multi-part set are complete when their indices are
\* exactly 1..total.
completeSet(members) ==
    /\ members # <<>>
    /\ \A i \in 1..Len(members) : members[i].part.total = Len(members)
    /\ { members[i].part.index : i \in 1..Len(members) } = 1..Len(members)

byIndex(members) ==
    [k \in 1..Len(members) |->
        members[CHOOSE i \in 1..Len(members) : members[i].part.index = k]]

\* The changes of cls with the marker of the topic of c.
ofTopic(cls, c) == SelectSeq(withPart(cls), LAMBDA d : d.part.topic = c.part.topic)

\* The first change of every topic, in query order.
topicHeads(cls) ==
    LET members == withPart(cls)
        heads == { i \in 1..Len(members) :
                     \A j \in 1..(i - 1) : members[j].part.topic # members[i].part.topic }
        order == SortInts(heads)
    IN  [k \in 1..Len(order) |-> members[order[k]]]

\* Group: singleton groups in query order, then the complete multi-part sets
\* by topic; an incomplete set is an error naming its first change.
groupCLs(cls) ==
    LET singles == withoutPart(cls)
        heads == topicHeads(cls)
        complete == SelectSeq(heads, LAMBDA c : completeSet(ofTopic(cls, c)))
        broken == SelectSeq(heads, LAMBDA c : ~completeSet(ofTopic(cls, c)))
    IN  [groups |-> [i \in 1..Len(singles) |-> << singles[i] >>]
                    \o [k \in 1..Len(complete) |-> byIndex(ofTopic(cls, complete[k]))],
         errs |-> broken]

\* gerrit.NewOpenCLs: the groups with a new member, and the multi-part errors.
\* Nothing is new against an empty previous registry.
NewOpenCLs(prev, cls) ==
    LET g == groupCLs(cls)
    IN  [lists |-> IF DOMAIN prev = {} THEN <<>>
                   ELSE SelectSeq(g.groups,
                                  LAMBDA l : \E i \in 1..Len(l) : isNewCL(prev, l[i])),
         errs |-> g.errs]

----------------------------------------------------------------------------------------------------------------------------------------
(* runQuery, step by step *)

MaxRuns == 2      \* runs of the query command in one behaviour
MaxFaults == 1    \* external calls that may fail within one loop iteration

OpenCLNums == {100, 200}

FaultPoints == {"post", "config", "queuedList", "cancelQueued", "ongoingList",
                "cancelOngoing", "add"}

FaultSets == { F \in SUBSET FaultPoints : Cardinality(F) <= MaxFaults }

\* In the runs every change is in project core, of a trusted owner and
\* without opt-out; the dispatch loop is given every kind of change below.
RunProfiles == { [project |-> "core", owner |-> GoogleOwner, presubmit |-> "all"] }

\* The calls that may fail in the dispatch loop of a run.
RunFaultSets == { F \in FaultSets : F \subseteq {"config", "cancelQueued", "add"} }

Part(i, n) == [topic |-> "t", index |-> i, total |-> n]

\* Part 1 of 2 of a set of its own: topic "t" for the first change of a
\* query result, "u" for the others.
OwnPart(i) == [topic |-> IF i = 1 THEN "t" ELSE "u", index |-> 1, total |-> 2]

\* The multi-part markers of the changes nums of a query result: none; the
\* changes are the parts of one set, in order; every change is part 1 of 2
\* of a set of its own whose second part is missing; or the first is part 1
\* of 2 and the second part is missing.
PartMarkings(nums) ==
    { [i \in 1..Len(nums) |-> NoPart] }
    \cup (IF Len(nums) >= 2 THEN { [i \in 1..Len(nums) |-> Part(i, Len(nums))] } ELSE {})
    \cup (IF Len(nums) >= 2 THEN { [i \in 1..Len(nums) |-> OwnPart(i)] } ELSE {})
    \cup (IF Len(nums) >= 1
          THEN { [i \in 1..Len(nums) |-> IF i = 1 THEN Part(1, 2) ELSE NoPart] } ELSE {})

\* What a query may return after the registry prev was read: any set of
\* open changes in ascending order of change number, a change of the
\* registry at a patchset that is not lower (the review server numbers the
\* patchsets of a change upwards).
QueryResults(prev) ==
    UNION { LET nums == SortInts(S) IN
            { [i \in 1..Len(nums) |->
                  Change(nums[i], ps[nums[i]], RefOf(nums[i], ps[nums[i]]),
                         a[nums[i]].project, a[nums[i]].owner, a[nums[i]].presubmit, mk[i])]
              : ps \in { f \in [S -> Patchsets] :
                           \A cl \in S : cl \in DOMAIN prev => f[cl] >= prev[cl] },
                a \in [S -> RunProfiles],
                mk \in PartMarkings(nums) }
            : S \in SUBSET OpenCLNums }

NilProjects == [nil |-> TRUE, names |-> {}]

Finish(r, at) == pc' = "done" /\ ret' = r /\ failedAt' = at

Continue(to) == pc' = to /\ ret' = ret /\ failedAt' = failedAt

Log(evs) == events' = events \o evs

\* runQuery up to jirix.Jenkins: a run starts with nothing sent.
StartRun(jenkinsOk) ==
    /\ pc \in {"idle", "done"}
    /\ runs < MaxRuns
    /\ runs' = runs + 1
    /\ numSentCLs' = 0
    /\ events' = <<>>
    /\ logAtStart' = logFile
    /\ lastBuild' = ""
    /\ prevCLsMap' = EmptyMap /\ curCLs' = <<>> /\ clLists' = <<>>
    /\ projects' = NilProjects /\ idx' = 1 /\ clsSent' = 0
    /\ IF jenkinsOk THEN pc' = "status" /\ ret' = "none" /\ failedAt' = ""
       ELSE Finish("err", "Jenkins")
    /\ UNCHANGED <<logFile, queued, ongoing, nextId, obVars>>

\* LastCompletedBuildStatus: "error" is a failed lookup.
LastCompletedBuildStatus(status) ==
    /\ pc = "status"
    /\ lastBuild' = status
    /\ pc' = "lastbuild"
    /\ UNCHANGED <<logFile, queued, ongoing, nextId, obVars,
                   runs, prevCLsMap, curCLs, clLists, projects, idx,
                   clsSent, numSentCLs, events, ret, failedAt, logAtStart>>

ReadLogStepAlways ==
    /\ pc = "lastbuild"
    /\ lastBuild' = ""
    /\ LET r == ReadLog(logFile)
       IN  /\ prevCLsMap' = r.cls
           /\ Log(<< Ev("ReadLog", 0, "", <<>>, ~r.err) >>)
           /\ IF r.err THEN Finish("err", "ReadLog") ELSE Continue("query")
    /\ UNCHANGED <<logFile, queued, ongoing, nextId, obVars,
                   runs, curCLs, clLists, projects, idx,
                   clsSent, numSentCLs, logAtStart>>

\* Nothing is done after a FAILURE of the last completed build (a failed
\* lookup is printed and the run goes on); otherwise the log is read.
ReadLogStep ==
    /\ pc = "lastbuild"
    /\ lastBuild' = ""
    /\ IF lastBuild = "FAILURE"
       THEN Finish("nil", "") /\ prevCLsMap' = prevCLsMap /\ events' = events
       ELSE LET r == ReadLog(logFile)
            IN  /\ prevCLsMap' = r.cls
                /\ Log(<< Ev("ReadLog", 0, "", <<>>, ~r.err) >>)
                /\ IF r.err THEN Finish("err", "ReadLog") ELSE Continue("query")
    /\ UNCHANGED <<logFile, queued, ongoing, nextId, obVars,
                   runs, curCLs, clLists, projects, idx,
                   clsSent, numSentCLs, logAtStart>>

QueryStepIgnoringError(ok) ==
    /\ pc = "query"
    /\ \E cls \in QueryResults(prevCLsMap) : curCLs' = (IF ok THEN cls ELSE <<>>)
    /\ Log(<< Ev("Query", 0, "", <<>>, ok) >>)
    /\ Continue("writelog")
    /\ UNCHANGED <<logFile, queued, ongoing, nextId, obVars,
                   runs, lastBuild, prevCLsMap, clLists, projects, idx,
                   clsSent, numSentCLs, logAtStart>>

\* gerritBaseUrl and Query: either failing ends the run with the error.
QueryStep(ok) ==
    /\ pc = "query"
    /\ \E cls \in QueryResults(prevCLsMap) : curCLs' = (IF ok THEN cls ELSE <<>>)
    /\ Log(<< Ev("Query", 0, "", <<>>, ok) >>)
    /\ IF ok THEN Continue("writelog") ELSE Finish("err", "Query")
    /\ UNCHANGED <<logFile, queued, ongoing, nextId, obVars,
                   runs, lastBuild, prevCLsMap, clLists, projects, idx,
                   clsSent, numSentCLs, logAtStart>>

WriteLogStepNoBaselineCheck(ok, host) ==
    /\ pc = "writelog"
    /\ Log(<< Ev("WriteLog", 0, "", <<>>, ok) >>)
    /\ logFile' = (IF ok THEN WriteLog(logFile, curCLs) ELSE logFile)
    /\ IF ~ok THEN Finish("err", "WriteLog")
       ELSE IF ~host THEN Finish("nil", "")
       ELSE Continue("diff")
    /\ UNCHANGED <<queued, ongoing, nextId, obVars,
                   runs, lastBuild, prevCLsMap, curCLs, clLists, projects, idx,
                   clsSent, numSentCLs, logAtStart>>

WriteLogStepSkipped(ok, host) ==
    /\ pc = "writelog"
    /\ IF ~host THEN Finish("nil", "")
       ELSE IF Cardinality(DOMAIN prevCLsMap) = 0 THEN Finish("nil", "")
       ELSE Continue("diff")
    /\ UNCHANGED <<logFile, queued, ongoing, nextId, obVars,
                   runs, lastBuild, prevCLsMap, curCLs, clLists, projects, idx,
                   clsSent, numSentCLs, events, logAtStart>>

\* WriteLog, then the two early returns: no Jenkins host (host is whether
\* jenkinsHostFlag is set), empty previous registry.
WriteLogStep(ok, host) ==
    /\ pc = "writelog"
    /\ Log(<< Ev("WriteLog", 0, "", <<>>, ok) >>)
    /\ logFile' = (IF ok THEN WriteLog(logFile, curCLs) ELSE logFile)
    /\ IF ~ok THEN Finish("err", "WriteLog")
       ELSE IF ~host THEN Finish("nil", "")
       ELSE IF Cardinality(DOMAIN prevCLsMap) = 0 THEN Finish("nil", "")
       ELSE Continue("diff")
    /\ UNCHANGED <<queued, ongoing, nextId, obVars,
                   runs, lastBuild, prevCLsMap, curCLs, clLists, projects, idx,
                   clsSent, numSentCLs, logAtStart>>

\* The errors up to and with the first whose post fails.
RECURSIVE untilFailedPost(_, _)
untilFailedPost(errs, failing) ==
    IF errs = <<>> THEN <<>>
    ELSE IF Head(errs).number \in failing THEN << Head(errs) >>
    ELSE << Head(errs) >> \o untilFailedPost(Tail(errs), failing)

DiffStepStoppingOnFailedPost(failing, manifestOk) ==
    /\ pc = "diff"
    /\ LET r == NewOpenCLs(prevCLsMap, curCLs)
           posted == untilFailedPost(r.errs, failing)
           stopped == \E i \in 1..Len(r.errs) : r.errs[i].number \in failing
       IN  /\ clLists' = r.lists
           /\ Log([i \in 1..Len(posted) |->
                     Ev("post", 0, "multipart", << posted[i].ref >>,
                        posted[i].number \notin failing)])
           /\ projects' = (IF manifestOk /\ ~stopped
                           THEN [nil |-> FALSE, names |-> ManifestProjects]
                           ELSE projects)
           /\ IF stopped THEN Finish("err", "post")
              ELSE IF manifestOk THEN Continue("send")
              ELSE Finish("err", "LoadManifest")
    /\ idx' = 1 /\ clsSent' = 0
    /\ UNCHANGED <<logFile, queued, ongoing, nextId, obVars,
                   runs, lastBuild, prevCLsMap, curCLs, numSentCLs, logAtStart>>

\* NewOpenCLs; every multi-part error is posted to its change (the posts
\* to the changes in failing fail), a failed post is printed only.  Then
\* project.LoadManifest and the sender.
DiffStep(failing, manifestOk) ==
    /\ pc = "diff"
    /\ LET r == NewOpenCLs(prevCLsMap, curCLs)
       IN  /\ clLists' = r.lists
           /\ Log([i \in 1..Len(r.errs) |->
                     Ev("post", 0, "multipart", << r.errs[i].ref >>,
                        r.errs[i].number \notin failing)])
    /\ projects' = (IF manifestOk THEN [nil |-> FALSE, names |-> ManifestProjects]
                    ELSE projects)
    /\ idx' = 1 /\ clsSent' = 0
    /\ IF manifestOk THEN Continue("send") ELSE Finish("err", "LoadManifest")
    /\ UNCHANGED <<logFile, queued, ongoing, nextId, obVars,
                   runs, lastBuild, prevCLsMap, curCLs, numSentCLs, logAtStart>>

SendOneStoppingOnFail(faults) ==
    /\ pc = "send"
    /\ idx <= Len(clLists)
    /\ LET r == sendOne(clLists[idx], idx, projects, faults, queued, ongoing, nextId)
       IN  /\ Log(r.evs)
           /\ queued' = r.queued /\ ongoing' = r.ongoing /\ nextId' = r.nextId
           /\ clsSent' = clsSent + r.sent
           /\ IF r.outcome = "panic" THEN Finish("panic", "processCLList") /\ idx' = idx
              ELSE IF r.outcome \in {"err", "FAIL"} THEN Finish("err", "send") /\ idx' = idx
              ELSE Continue(pc) /\ idx' = idx + 1
    /\ UNCHANGED <<logFile, obVars, runs, lastBuild, prevCLsMap, curCLs, clLists,
                   projects, numSentCLs, logAtStart>>

SendOneCountingSkipped(faults) ==
    /\ pc = "send"
    /\ idx <= Len(clLists)
    /\ LET r == sendOne(clLists[idx], idx, projects, faults, queued, ongoing, nextId)
       IN  /\ Log(r.evs)
           /\ queued' = r.queued /\ ongoing' = r.ongoing /\ nextId' = r.nextId
           /\ clsSent' = clsSent + (IF r.outcome \in {"PASS", "SKIP-none", "SKIP-notests",
                                                       "SKIP-nongoogle"}
                                    THEN Len(clLists[idx]) ELSE 0)
           /\ IF r.outcome = "panic" THEN Finish("panic", "processCLList") /\ idx' = idx
              ELSE IF r.outcome = "err" THEN Finish("err", "send") /\ idx' = idx
              ELSE Continue(pc) /\ idx' = idx + 1
    /\ UNCHANGED <<logFile, obVars, runs, lastBuild, prevCLsMap, curCLs, clLists,
                   projects, numSentCLs, logAtStart>>

\* One iteration of the loop of sendCLListsToPresubmitTest.
SendOne(faults) ==
    /\ pc = "send"
    /\ idx <= Len(clLists)
    /\ LET r == sendOne(clLists[idx], idx, projects, faults, queued, ongoing, nextId)
       IN  /\ Log(r.evs)
           /\ queued' = r.queued /\ ongoing' = r.ongoing /\ nextId' = r.nextId
           /\ clsSent' = clsSent + r.sent
           /\ IF r.outcome = "panic" THEN Finish("panic", "processCLList") /\ idx' = idx
              ELSE IF r.outcome = "err" THEN Finish("err", "send") /\ idx' = idx
              ELSE Continue(pc) /\ idx' = idx + 1
    /\ UNCHANGED <<logFile, obVars, runs, lastBuild, prevCLsMap, curCLs, clLists,
                   projects, numSentCLs, logAtStart>>

\* The loop is over: the sender's count is added to the run's; then
\* getSubmittableCLs and submitCLs, a failed submission being the run's error.
SendDone(submitOk) ==
    /\ pc = "send"
    /\ idx > Len(clLists)
    /\ numSentCLs' = numSentCLs + clsSent
    /\ IF submitOk THEN Finish("nil", "") ELSE Finish("err", "submitCLs")
    /\ UNCHANGED <<logFile, queued, ongoing, nextId, obVars,
                   runs, lastBuild, prevCLsMap, curCLs, clLists, projects, idx,
                   clsSent, events, logAtStart>>

----------------------------------------------------------------------------
(* Initial states *)

NoCall == [called |-> FALSE, outdated |-> FALSE, err |-> FALSE]

NoTests == [called |-> FALSE, err |-> FALSE, tests |-> <<>>]

TestsIdle == tProjects = <<>> /\ tResult = NoTests

NoRemoval == [called |-> FALSE, errs |-> 0, queued |-> <<>>, ongoing |-> <<>>]

RemoveIdle == rmResult = NoRemoval

NoMatch == [called |-> FALSE, ok |-> FALSE, index |-> 0, total |-> 0]

NoMessage ==
    [prefix |-> <<>>, label |-> <<>>, index |-> <<>>, slash |-> <<>>, total |-> <<>>,
     str |-> <<>>]

ParseIdle == mMessage = NoMessage /\ mResult = NoMatch

\* A tree of the snapshot repository: the snapshot files of the label and
\* the target of the label's symlink (0: no symlink).
EmptyTree == [files |-> {}, link |-> 0]

NoSnapshot ==
    [pc |-> "idle", remote |-> FALSE, files |-> {}, link |-> 0, new |-> 0, stray |-> FALSE,
     index |-> EmptyTree, commits |-> << EmptyTree >>, head |-> 1, origin |-> 1,
     revision |-> 0, snapshotFile |-> 0, made |-> 0, failedAt |-> ""]

NoListing ==
    [called |-> FALSE, dirs |-> <<>>, links |-> <<>>, args |-> <<>>,
     out |-> <<>>, notFound |-> <<>>, ret |-> "none"]

ToolsIdle == snap = NoSnapshot /\ ls = NoListing

CorruptLog == << <<100>> >>

\* The log an earlier run left, or a log with a malformed line.
InitLogs ==
    { LET nums == SortInts(DOMAIN m) IN [i \in 1..Len(nums) |-> RefOf(nums[i], m[nums[i]])]
      : m \in CLMaps(OpenCLNums) }
    \cup { CorruptLog }

\* Builds left in the queue by earlier runs.
InitQueues == { <<>>, << [id |-> 1, refs |-> << RefOf(100, 1) >>] >> }

RunIdle ==
    /\ pc = "idle" /\ runs = 0 /\ lastBuild = ""
    /\ prevCLsMap = EmptyMap /\ curCLs = <<>> /\ clLists = <<>>
    /\ projects = NilProjects /\ idx = 1 /\ clsSent = 0 /\ numSentCLs = 0
    /\ events = <<>> /\ ret = "none" /\ failedAt = ""

Init ==
    /\ obRefs = <<>> /\ obNewCLs = EmptyMap /\ obResult = NoCall
    /\ TestsIdle /\ RemoveIdle /\ ParseIdle /\ ToolsIdle
    /\ logFile \in InitLogs
    /\ logAtStart = logFile
    /\ queued \in InitQueues
    /\ ongoing = <<>>
    /\ nextId = 2
    /\ RunIdle

Next ==
    \/ \E jenkinsOk \in BOOLEAN : StartRun(jenkinsOk)
    \/ \E status \in {"SUCCESS", "FAILURE", "error"} : LastCompletedBuildStatus(status)
    \/ ReadLogStep
    \/ \E ok \in BOOLEAN : QueryStep(ok)
    \/ \E ok \in BOOLEAN, host \in BOOLEAN : WriteLogStep(ok, host)
    \/ \E failing \in SUBSET OpenCLNums, manifestOk \in BOOLEAN :
           DiffStep(failing, manifestOk)
    \/ \E faults \in RunFaultSets : SendOne(faults)
    \/ \E submitOk \in BOOLEAN : SendDone(submitOk)

Spec == Init /\ [][Next]_vars

----------------------------------------------------------------------------
(* The dispatch loop on its own: sendCLListsToPresubmitTest on every list of
   change-groups below, against a Jenkins with one queued and one ongoing build *)

SubjectMembers(cl) ==
    { Change(cl, 2, RefOf(cl, 2), pr, ow, pt, NoPart) :
        pr \in {"core", "docs", "elsewhere"},
        ow \in {GoogleOwner, ListedOwner, OtherOwner},
        pt \in {"all", "none"} }
    \cup { Change(cl, 2, <<cl>>, "core", GoogleOwner, "all", NoPart) }

SubjectGroups ==
    { << a >> : a \in SubjectMembers(100) }
    \cup { << a, b >> : a \in SubjectMembers(100), b \in SubjectMembers(200) }

Trailer == << Change(300, 1, RefOf(300, 1), "core", GoogleOwner, "all", NoPart) >>

SendLists ==
    UNION { { << G >>, << G, Trailer >>, << Trailer, G >> } : G \in SubjectGroups }

SendInit ==
    /\ obRefs = <<>> /\ obNewCLs = EmptyMap /\ obResult = NoCall
    /\ TestsIdle /\ RemoveIdle /\ ParseIdle /\ ToolsIdle
    /\ logFile = <<>> /\ logAtStart = <<>>
    /\ queued = << [id |-> 1, refs |-> << RefOf(100, 1) >>] >>
    /\ ongoing = << [id |-> 2, building |-> TRUE, refs |-> << RefOf(200, 1) >>] >>
    /\ nextId = 3
    /\ pc = "send" /\ runs = 1 /\ lastBuild = ""
    /\ prevCLsMap = EmptyMap /\ curCLs = <<>>
    /\ clLists \in SendLists
    /\ projects \in { NilProjects, [nil |-> FALSE, names |-> ManifestProjects] }
    /\ idx = 1 /\ clsSent = 0 /\ numSentCLs = 0
    /\ events = <<>> /\ ret = "none" /\ failedAt = ""

SendNext ==
    \/ \E faults \in FaultSets : SendOne(faults)
    \/ \E submitOk \in BOOLEAN : SendDone(submitOk)

SpecSend == SendInit /\ [][SendNext]_vars

----------------------------------------------------------------------------
(* The detector on its own: every refs string and every map within bounds *)

BuildCLs == {1000, 2000, 3000}

MalformedRefs == { <<>>, <<1000>> }

BuildRefUniverse == { RefOf(cl, ps) : cl \in BuildCLs, ps \in Patchsets } \cup MalformedRefs

RECURSIVE SeqsUpTo(_, _)
SeqsUpTo(S, n) ==
    IF n = 0 THEN { <<>> }
    ELSE LET shorter == SeqsUpTo(S, n - 1)
         IN  shorter \cup { Append(s, x) : s \in shorter, x \in S }

OutdatedInit ==
    /\ obRefs \in SeqsUpTo(BuildRefUniverse, MaxRefs)
    /\ obNewCLs \in CLMaps(BuildCLs)
    /\ obResult = NoCall
    /\ TestsIdle /\ RemoveIdle /\ ParseIdle /\ ToolsIdle
    /\ logFile = <<>> /\ logAtStart = <<>>
    /\ queued = <<>> /\ ongoing = <<>> /\ nextId = 1
    /\ RunIdle

CallIsBuildOutdated ==
    /\ ~obResult.called
    /\ LET r == isBuildOutdated(obRefs, obNewCLs)
       IN  obResult' = [called |-> TRUE, outdated |-> r.outdated, err |-> r.err]
    /\ UNCHANGED <<toolVars, obRefs, obNewCLs, tProjects, tResult, rmResult, mMessage, mResult,
                   logFile, queued, ongoing, nextId, runVars>>

OutdatedNext == CallIsBuildOutdated

SpecOutdated == OutdatedInit /\ [][OutdatedNext]_vars

-----------------------------------------------------------------------------
(* getTestsToRun on its own: any list of projects, the configuration
   loading or not *)

MaxProjects == 3

TestProjects == {"core", "docs", "tools", "elsewhere"}

TestsInit ==
    /\ tProjects \in SeqsUpTo(TestProjects, MaxProjects)
    /\ tResult = NoTests
    /\ RemoveIdle /\ ParseIdle /\ ToolsIdle
    /\ obRefs = <<>> /\ obNewCLs = EmptyMap /\ obResult = NoCall
    /\ logFile = <<>> /\ logAtStart = <<>>
    /\ queued = <<>> /\ ongoing = <<>> /\ nextId = 1
    /\ RunIdle

CallGetTestsToRun(faults) ==
    /\ ~tResult.called
    /\ tResult' = [called |-> TRUE, err |-> getTestsToRun(tProjects, faults).err,
                   tests |-> getTestsToRun(tProjects, faults).tests]
    /\ UNCHANGED <<toolVars, obRefs, obNewCLs, obResult, tProjects, rmResult, mMessage, mResult,
                   logFile, queued, ongoing, nextId, runVars>>

TestsNext == \E faults \in {{}, {"config"}} : CallGetTestsToRun(faults)

SpecTests == TestsInit /\ [][TestsNext]_vars

-----------------------------------------------------------------------------
(* removeOutdatedBuilds on its own: any queue and any build under way, the
   map of a group with the one change 100 *)

MaxBuilds == 2    \* builds in the queue

\* The REFS of a build: none, one that does not parse, change 100 at any
\* patchset, change 100 with a ref that does not parse, changes 100 and 200,
\* change 200 alone.
RemoveRefs ==
    { <<>>, << <<100>> >>, << RefOf(100, 1), <<100>> >>, << RefOf(100, 1), RefOf(200, 1) >>,
      << RefOf(200, 1) >> }
    \cup { << RefOf(100, ps) >> : ps \in Patchsets }

RemoveInit ==
    /\ obRefs = <<>> /\ obResult = NoCall
    /\ obNewCLs \in [{100} -> Patchsets]
    /\ TestsIdle /\ RemoveIdle /\ ParseIdle /\ ToolsIdle
    /\ logFile = <<>> /\ logAtStart = <<>>
    /\ \E rs \in SeqsUpTo(RemoveRefs, MaxBuilds) :
           /\ queued = [i \in 1..Len(rs) |-> [id |-> i, refs |-> rs[i]]]
           /\ nextId = Len(rs) + 2
    /\ ongoing \in { <<>> } \cup { << [id |-> nextId - 1, building |-> b, refs |-> r] >> :
                                      b \in BOOLEAN, r \in RemoveRefs }
    /\ RunIdle

\* The call of isBuildOutdated the passes make for a build with refs.
ProbeBuild(refs) ==
    /\ ~obResult.called /\ ~rmResult.called
    /\ refs # <<>>
    /\ obRefs' = refs
    /\ LET r == isBuildOutdated(refs, obNewCLs)
       IN  obResult' = [called |-> TRUE, outdated |-> r.outdated, err |-> r.err]
    /\ UNCHANGED <<toolVars, obNewCLs, tProjects, tResult, rmResult, mMessage, mResult,
                   logFile, queued, ongoing, nextId, runVars>>

CallRemoveOutdatedBuilds(faults) ==
    /\ ~obResult.called /\ ~rmResult.called
    /\ LET r == removeOutdatedBuilds(obNewCLs, 1, faults, queued, ongoing)
       IN  /\ rmResult' = [called |-> TRUE, errs |-> r.errs,
                            queued |-> queued, ongoing |-> ongoing]
           /\ queued' = r.queued /\ ongoing' = r.ongoing
           /\ Log(r.evs)
    /\ UNCHANGED <<toolVars, obRefs, obNewCLs, obResult, tProjects, tResult, mMessage, mResult,
                   logFile, nextId, pc, runs, lastBuild, prevCLsMap, curCLs, clLists,
                   projects, idx, clsSent, numSentCLs, ret, failedAt, logAtStart>>

RemoveFaultSets ==
    { F \in FaultSets : F \subseteq {"queuedList", "cancelQueued", "ongoingList",
                                      "cancelOngoing"} }

RemoveNext ==
    \/ \E i \in 1..Len(queued) : ProbeBuild(queued[i].refs)
    \/ \E i \in 1..Len(ongoing) : ongoing[i].building /\ ProbeBuild(ongoing[i].refs)
    \/ \E faults \in RemoveFaultSets : CallRemoveOutdatedBuilds(faults)

SpecRemove == RemoveInit /\ [][RemoveNext]_vars

-----------------------------------------------------------------------------
(* The multi-part marker of a commit message.  Strings are sequences of
   character codes. *)

MultiPartLabel == <<77, 117, 108, 116, 105, 80, 97, 114, 116, 58>>   \* "MultiPart:"

IsDigit(ch) == ch \in 48..57

IsSpace(ch) == ch \in {9, 10, 11, 12, 13, 32}

HasPrefixAt(str, p, lit) ==
    /\ p + Len(lit) - 1 <= Len(str)
    /\ \A k \in 1..Len(lit) : str[p + k - 1] = lit[k]

\* The position after the spaces, and after the digits, that start at p.
RECURSIVE skipSpaces(_, _)
skipSpaces(str, p) ==
    IF p <= Len(str) /\ IsSpace(str[p]) THEN skipSpaces(str, p + 1) ELSE p

RECURSIVE skipDigits(_, _)
skipDigits(str, p) ==
    IF p <= Len(str) /\ IsDigit(str[p]) THEN skipDigits(str, p + 1) ELSE p

\* strconv.Atoi of a string of digits.
RECURSIVE Atoi(_, _)
Atoi(digits, acc) ==
    IF digits = <<>> THEN acc ELSE Atoi(Tail(digits), 10 * acc + (Head(digits) - 48))

matchAtAnyLabel(str, p) ==
    LET b == skipSpaces(str, p)
        c == skipDigits(str, b)
        d == skipSpaces(str, c)
        f == skipSpaces(str, d + 1)
        g == skipDigits(str, f)
    IN  IF c > b /\ d <= Len(str) /\ str[d] = 47 /\ g > f
        THEN [ok |-> TRUE, index |-> Atoi(SubSeq(str, b, c - 1), 0),
              total |-> Atoi(SubSeq(str, f, g - 1), 0)]
        ELSE [ok |-> FALSE, index |-> 0, total |-> 0]

\* The marker at position p: the label, spaces, digits, spaces, a slash,
\* spaces, digits.
matchAt(str, p) ==
    LET b == skipSpaces(str, p + Len(MultiPartLabel))
        c == skipDigits(str, b)
        d == skipSpaces(str, c)
        f == skipSpaces(str, d + 1)
        g == skipDigits(str, f)
    IN  IF HasPrefixAt(str, p, MultiPartLabel)
           /\ c > b /\ d <= Len(str) /\ str[d] = 47 /\ g > f
        THEN [ok |-> TRUE, index |-> Atoi(SubSeq(str, b, c - 1), 0),
              total |-> Atoi(SubSeq(str, f, g - 1), 0)]
        ELSE [ok |-> FALSE, index |-> 0, total |-> 0]

\* parseMultiPartMatch: the leftmost marker of the message, if any.
parseMultiPartMatch(str) ==
    LET hits == { p \in 1..Len(str) : matchAt(str, p).ok }
    IN  IF hits = {} THEN [ok |-> FALSE, index |-> 0, total |-> 0]
        ELSE matchAt(str, Min(hits))

MaxSpaces == 1    \* spaces after the label and on either side of the slash

Spaces(n) == [i \in 1..n |-> 32]

\* What a message is put together from: what comes before the marker, the
\* label as written, the index and the total as written, the slash or not.
Prefixes == { <<>>, <<109, 101, 115, 115, 97, 103, 101, 46, 46, 46, 10>>, <<57, 47, 57, 32>> }   \* "", "message...\n", "9/9 "

Labels == { MultiPartLabel, <<109, 117, 108, 116, 105, 112, 97, 114, 116, 58>>, <<77, 117, 108, 116, 105, 80, 97, 114, 116>>, <<>> }   \* also "multipart:", "MultiPart", ""

IndexStrs == { <<>>, <<97>>, <<49>>, <<49, 50, 51>>, <<48, 55>> }   \* "", "a", "1", "123", "07"

TotalStrs == { <<>>, <<50>>, <<51>>, <<50, 51, 52>> }   \* "", "2", "3", "234"

Slashes == { <<47>>, <<>> }

Messages ==
    { [prefix |-> pre, label |-> lab, index |-> ix, slash |-> sl, total |-> tot,
       str |-> pre \o lab \o Spaces(n1) \o ix \o Spaces(n2) \o sl \o Spaces(n3) \o tot] :
      pre \in Prefixes, lab \in Labels, ix \in IndexStrs, sl \in Slashes,
      tot \in TotalStrs, n1 \in 0..MaxSpaces, n2 \in 0..MaxSpaces, n3 \in 0..MaxSpaces }

ParseInit ==
    /\ mMessage \in Messages
    /\ mResult = NoMatch
    /\ obRefs = <<>> /\ obNewCLs = EmptyMap /\ obResult = NoCall
    /\ TestsIdle /\ RemoveIdle /\ ToolsIdle
    /\ logFile = <<>> /\ logAtStart = <<>>
    /\ queued = <<>> /\ ongoing = <<>> /\ nextId = 1
    /\ RunIdle

CallParseMultiPartMatch ==
    /\ ~mResult.called
    /\ LET r == parseMultiPartMatch(mMessage.str)
       IN  mResult' = [called |-> TRUE, ok |-> r.ok, index |-> r.index, total |-> r.total]
    /\ UNCHANGED <<toolVars, obRefs, obNewCLs, obResult, tProjects, tResult, rmResult, mMessage,
                   logFile, queued, ongoing, nextId, runVars>>

ParseNext == CallParseMultiPartMatch

SpecParse == ParseInit /\ [][ParseNext]_vars

-----------------------------------------------------------------------------
(* snapshot create.  The snapshot repository holds, for the one label, the
   snapshot files labels/<label>/<time> (numbered 1, 2, ...), the symlink
   <label> and, while it is replaced, the symlink <label>.new.  snap holds
   the work tree (files, link, new, and stray: an untracked file of someone
   else's), the index, the commits, HEAD (head) and the master of the remote
   (origin). *)

MaxSnapshots == 2    \* runs of snapshot create

\* git reset --hard rev: HEAD and the index are those of rev, and so is
\* every tracked path of the work tree; untracked paths are left alone.
gitReset(s, rev) ==
    LET target == s.commits[rev]
        tracked == s.index.files \cup s.commits[s.head].files \cup target.files
        linkTracked == s.index.link # 0 \/ s.commits[s.head].link # 0 \/ target.link # 0
    IN  [s EXCEPT !.head = rev, !.index = target,
                  !.files = (s.files \ tracked) \cup target.files,
                  !.link = IF linkTracked THEN target.link ELSE s.link]

\* git clean -d -f: every untracked path leaves the work tree.
gitRemoveUntrackedFiles(s) ==
    [s EXCEPT !.files = s.files \cap s.index.files,
              !.link = IF s.index.link = 0 THEN 0 ELSE s.link,
              !.new = 0, !.stray = FALSE]

cleanUpResetOnly(s) == gitReset(s, s.revision)

\* "Clean up on all errors": Reset(revision), then RemoveUntrackedFiles; the
\* results of the two calls are not looked at.
cleanUp(s) == gitRemoveUntrackedFiles(gitReset(s, s.revision))

\* The calls of createFn, createSnapshot and revisionChanges, in order.
SnapshotSteps ==
    << "LatestCommitID", "CreateSnapshot", "RemoveAll", "Symlink", "Rename",
       "Getwd", "Chdir", "AddFile", "AddLink", "Commit", "Push" >>

StepNo(step) == CHOOSE i \in 1..Len(SnapshotSteps) : SnapshotSteps[i] = step

\* Where the command stands after the step has succeeded: the push is made
\* in remote mode only.
AfterStep(s, step) ==
    IF step = "Push" \/ (step = "Commit" /\ ~s.remote) THEN "ok"
    ELSE SnapshotSteps[StepNo(step) + 1]

\* What the step does when it succeeds.
stepDone(s, step) ==
    IF step = "LatestCommitID" THEN [s EXCEPT !.revision = s.head]
    ELSE IF step = "CreateSnapshot" THEN [s EXCEPT !.files = @ \cup {s.snapshotFile}]
    ELSE IF step = "RemoveAll" THEN [s EXCEPT !.new = 0]
    ELSE IF step = "Symlink" THEN [s EXCEPT !.new = s.snapshotFile]
    ELSE IF step = "Rename" THEN [s EXCEPT !.link = s.new, !.new = 0]
    ELSE IF step = "AddFile" THEN [s EXCEPT !.index.files = @ \cup {s.snapshotFile}]
    ELSE IF step = "AddLink" THEN [s EXCEPT !.index.link = s.link]
    ELSE IF step = "Commit"
    THEN [s EXCEPT !.commits = Append(@, s.index), !.head = Len(s.commits) + 1]
    ELSE IF step = "Push" THEN [s EXCEPT !.origin = s.head]
    ELSE s

\* What the step leaves when it fails: writing the snapshot file may have
\* left the file (partial); the other steps leave nothing.
stepFailed(s, step, partial) ==
    IF step = "CreateSnapshot" /\ partial
    THEN [s EXCEPT !.files = @ \cup {s.snapshotFile}]
    ELSE s

\* createFn: an error of LatestCommitID is returned as it is, an error of
\* createSnapshot after the clean-up.
createFn(s, step, ok, partial) ==
    IF ok THEN [stepDone(s, step) EXCEPT !.pc = AfterStep(s, step)]
    ELSE IF step = "LatestCommitID" THEN [s EXCEPT !.pc = "failed", !.failedAt = step]
    ELSE [cleanUp(stepFailed(s, step, partial)) EXCEPT !.pc = "failed", !.failedAt = step]

SnapshotFrame ==
    UNCHANGED <<obRefs, obNewCLs, obResult, tProjects, tResult, rmResult, mMessage,
                mResult, ls, logFile, queued, ongoing, nextId, runVars>>

\* runSnapshotCreate up to createFn: the tests of the label, and the name
\* of the snapshot file from the time.
runSnapshotCreate(testsOk) ==
    /\ snap.pc \in {"idle", "ok", "failed"}
    /\ snap.made < MaxSnapshots
    /\ snap' = [snap EXCEPT !.pc = IF testsOk THEN "LatestCommitID" ELSE "failed",
                            !.failedAt = IF testsOk THEN "" ELSE "runTests",
                            !.snapshotFile = snap.made + 1, !.made = snap.made + 1,
                            !.revision = 0]
    /\ SnapshotFrame

\* One call of createFn, createSnapshot or revisionChanges.
SnapshotStep(ok, partial) ==
    /\ \E i \in 1..Len(SnapshotSteps) : SnapshotSteps[i] = snap.pc
    /\ snap' = createFn(snap, snap.pc, ok, partial)
    /\ SnapshotFrame

\* The repository before the first run: no snapshot yet; the work tree may
\* hold an untracked file and a <label>.new left behind.
SnapshotInit ==
    /\ snap \in { [NoSnapshot EXCEPT !.remote = r, !.stray = u, !.new = n] :
                     r \in BOOLEAN, u \in BOOLEAN, n \in {0, MaxSnapshots + 1} }
    /\ ls = NoListing
    /\ obRefs = <<>> /\ obNewCLs = EmptyMap /\ obResult = NoCall
    /\ TestsIdle /\ RemoveIdle /\ ParseIdle
    /\ logFile = <<>> /\ logAtStart = <<>>
    /\ queued = <<>> /\ ongoing = <<>> /\ nextId = 1
    /\ RunIdle

SnapshotNext ==
    \/ \E testsOk \in BOOLEAN : runSnapshotCreate(testsOk)
    \/ \E ok \in BOOLEAN, partial \in BOOLEAN : SnapshotStep(ok, partial)

SpecSnapshot == SnapshotInit /\ [][SnapshotNext]_vars

-----------------------------------------------------------------------------
(* snapshot list.  Names are strings of character codes and a path is the
   sequence of its components.  ls.dirs tells for each label what
   labels/<label> is in the snapshot directory (nothing, a file, or a
   directory with the snapshots "1" .. "n"), ls.links what <label> is there
   (nothing, a file, or a symlink to dst). *)

MaxArgs == 2    \* labels on the command line

Beta == <<98, 101, 116, 97>>                  \* "beta"
Stable == <<115, 116, 97, 98, 108, 101>>     \* "stable"
LabelNames == {Beta, Stable}

LabelsDir == <<108, 97, 98, 101, 108, 115>>  \* "labels"
MyLabels == <<109, 121>> \o LabelsDir          \* "mylabels"
SnapshotDir == <<115>>                        \* the snapshot directory
Elsewhere == <<101>>                          \* a directory outside of it
SnapshotName(i) == <<48 + i>>

\* filepath.Join
RECURSIVE Join(_)
Join(path) ==
    IF path = <<>> THEN <<>>
    ELSE IF Len(path) = 1 THEN path[1]
    ELSE path[1] \o <<47>> \o Join(Tail(path))

\* filepath.Dir
Dir(path) == SubSeq(path, 1, Len(path) - 1)

\* strings.HasSuffix
HasSuffix(str, suffix) ==
    /\ Len(suffix) <= Len(str)
    /\ SubSeq(str, Len(str) - Len(suffix) + 1, Len(str)) = suffix

\* Whether the path is there: the snapshot directory holds what ls.dirs
\* tells, the directory elsewhere holds every path asked for.
Exists(dirs, path) ==
    IF path[1] = Elsewhere THEN TRUE
    ELSE /\ Len(path) \in {3, 4} /\ path[1] = SnapshotDir /\ path[2] = LabelsDir
         /\ path[3] \in DOMAIN dirs
         /\ IF Len(path) = 3 THEN dirs[path[3]].kind # "none"
            ELSE /\ dirs[path[3]].kind = "dir"
                 /\ \E i \in 1..dirs[path[3]].n : path[4] = SnapshotName(i)

\* ioutil.ReadDir of the snapshot directory, as far as symlinks go: the
\* names in sorted order.
RECURSIVE sortedNames(_)
sortedNames(S) ==
    IF S = {} THEN <<>>
    ELSE LET first == CHOOSE x \in S : \A y \in S : ~LexLess(y, x)
         IN  <<first>> \o sortedNames(S \ {first})

entryNames(links) == sortedNames({ l \in DOMAIN links : links[l].kind # "none" })

\* The first loop of runSnapshotList: the labels found, or an error.
RECURSIVE knownLabels(_, _, _, _)
knownLabels(dirs, links, names, found) ==
    IF names = <<>> THEN [err |-> FALSE, labels |-> found]
    ELSE LET name == Head(names) IN
         IF links[name].kind # "symlink"
         THEN knownLabels(dirs, links, Tail(names), found)
         ELSE IF ~Exists(dirs, links[name].dst)
         THEN [err |-> TRUE, labels |-> <<>>]
         ELSE IF HasSuffix(Join(Dir(links[name].dst)), Join(<<LabelsDir, name>>))
         THEN knownLabels(dirs, links, Tail(names), Append(found, name))
         ELSE knownLabels(dirs, links, Tail(names), found)

\* "Check that all labels exist": the labels os.Stat does not find.
notFoundLabels(dirs, args) == SelectSeq(args, LAMBDA l : dirs[l].kind = "none")

sortArgsKeepingOrder(args) == args

\* sort.Strings(args)
sortArgs(args) == SortStrings(args)

\* "Print snapshots for all labels", up to the first label whose directory
\* cannot be read.
RECURSIVE printSnapshots(_, _, _)
printSnapshots(dirs, labels, out) ==
    IF labels = <<>> THEN [out |-> out, ret |-> "nil"]
    ELSE LET label == Head(labels) IN
         IF dirs[label].kind # "dir" THEN [out |-> out, ret |-> "err"]
         ELSE printSnapshots(dirs, Tail(labels),
                  out \o << [label |-> label, snap |-> 0] >>
                      \o [i \in 1..dirs[label].n |-> [label |-> label, snap |-> i]])

runSnapshotList(dirs, links, args) ==
    LET known == IF args = <<>> THEN knownLabels(dirs, links, entryNames(links), <<>>)
                 ELSE [err |-> FALSE, labels |-> args]
        missing == notFoundLabels(dirs, known.labels)
    IN  IF known.err THEN [out |-> <<>>, notFound |-> <<>>, ret |-> "err"]
        ELSE IF missing # <<>> THEN [out |-> <<>>, notFound |-> missing, ret |-> "exit2"]
        ELSE LET printed == printSnapshots(dirs, sortArgs(known.labels), <<>>)
             IN  [out |-> printed.out, notFound |-> <<>>, ret |-> printed.ret]

CallRunSnapshotList ==
    /\ ~ls.called
    /\ LET r == runSnapshotList(ls.dirs, ls.links, ls.args)
       IN  ls' = [ls EXCEPT !.called = TRUE, !.out = r.out, !.notFound = r.notFound,
                            !.ret = r.ret]
    /\ UNCHANGED <<obRefs, obNewCLs, obResult, tProjects, tResult, rmResult, mMessage,
                   mResult, snap, logFile, queued, ongoing, nextId, runVars>>

\* What labels/<label> can be.
LabelDirs ==
    { [kind |-> "none", n |-> 0], [kind |-> "file", n |-> 0] }
        \cup { [kind |-> "dir", n |-> n] : n \in 0..MaxSnapshots }

\* What <label> can be: a symlink to the first snapshot of the label, to
\* the first snapshot of another label, to the directory of the label, or
\* to a file of a directory labels/<label> elsewhere.
LabelLinks(l) ==
    { [kind |-> "none", dst |-> <<>>], [kind |-> "file", dst |-> <<>>] }
        \cup { [kind |-> "symlink", dst |-> <<SnapshotDir, LabelsDir, t, SnapshotName(1)>>] :
                 t \in LabelNames }
        \cup { [kind |-> "symlink", dst |-> <<SnapshotDir, LabelsDir, l>>],
               [kind |-> "symlink", dst |-> <<Elsewhere, MyLabels, l, SnapshotName(1)>>] }

ListInit ==
    /\ \E dirs \in [LabelNames -> LabelDirs], args \in SeqsUpTo(LabelNames, MaxArgs) :
          \E links \in { f \in [LabelNames -> UNION { LabelLinks(l) : l \in LabelNames }] :
                            \A l \in LabelNames : f[l] \in LabelLinks(l) } :
             ls = [NoListing EXCEPT !.dirs = dirs, !.links = links, !.args = args]
    /\ snap = NoSnapshot
    /\ obRefs = <<>> /\ obNewCLs = EmptyMap /\ obResult = NoCall
    /\ TestsIdle /\ RemoveIdle /\ ParseIdle
    /\ logFile = <<>> /\ logAtStart = <<>>
    /\ queued = <<>> /\ ongoing = <<>> /\ nextId = 1
    /\ RunIdle

ListNext == CallRunSnapshotList

SpecList == ListInit /\ [][ListNext]_vars

----------------------------------------------------------------------------
(* What a build's refs say, read off the refs string directly *)

WellFormedRefs(refs) == refs # <<>> /\ \A i \in 1..Len(refs) : Len(refs[i]) = 3

BuildCLSet(refs) == { refs[i][2] : i \in 1..Len(refs) }

\* The patchset the build records for cl: that of the last ref naming cl.
BuildPatchset(refs, cl) ==
    LET last == CHOOSE i \in 1..Len(refs) :
                    /\ refs[i][2] = cl
                    /\ \A j \in 1..Len(refs) : refs[j][2] = cl => j <= i
    IN  refs[last][3]

\* C1: isBuildOutdated, partial overlap.  When the change numbers of the
\* build's refs differ as a set from those of newCLs, the build is outdated
\* exactly when some change number in both has a new patchset >= the build's
\* patchset for it; so a build disjoint from newCLs is not outdated.
C1_PartialOverlap ==
    (obResult.called /\ WellFormedRefs(obRefs) /\ BuildCLSet(obRefs) # DOMAIN obNewCLs)
    => /\ ~obResult.err
       /\ obResult.outdated <=>
              \E cl \in BuildCLSet(obRefs) \cap DOMAIN obNewCLs :
                  obNewCLs[cl] >= BuildPatchset(obRefs, cl)
       /\ (BuildCLSet(obRefs) \cap DOMAIN obNewCLs = {}) => ~obResult.outdated

\* C1 witness: build {1000:1} against {1000:2, 2000:1} has been judged outdated.
C1_Witness ==
    /\ obResult.called /\ obResult.outdated
    /\ obRefs = << RefOf(1000, 1) >>
    /\ DOMAIN obNewCLs = {1000, 2000} /\ obNewCLs[1000] = 2 /\ obNewCLs[2000] = 1

\* C2: isBuildOutdated, exact match.  When the build's refs and newCLs name
\* the same set of change numbers, the build is outdated exactly when every
\* change number has a new patchset >= the build's; one strictly lower new
\* patchset makes the build current.
C2_ExactMatch ==
    (obResult.called /\ WellFormedRefs(obRefs) /\ BuildCLSet(obRefs) = DOMAIN obNewCLs)
    => /\ ~obResult.err
       /\ obResult.outdated <=>
              \A cl \in DOMAIN obNewCLs : obNewCLs[cl] >= BuildPatchset(obRefs, cl)

\* C2 witness: a two-change build with one change ahead of newCLs and the
\* other behind it has been judged current.
C2_Witness ==
    /\ obResult.called /\ ~obResult.outdated /\ ~obResult.err
    /\ WellFormedRefs(obRefs)
    /\ BuildCLSet(obRefs) = DOMAIN obNewCLs
    /\ \E a, b \in DOMAIN obNewCLs :
           /\ obNewCLs[a] < BuildPatchset(obRefs, a)
           /\ obNewCLs[b] > BuildPatchset(obRefs, b)

----------------------------------------------------------------------------
(* A run of runQuery, read off the calls it has made *)

EvIdx == 1..Len(events)

Called(op) == { i \in EvIdx : events[i].op = op }

Succeeded(op) == { i \in EvIdx : events[i].op = op /\ events[i].ok }

Failed(op) == { i \in EvIdx : events[i].op = op /\ ~events[i].ok }

\* The calls that reach the review server or change the CI server.
SideEffectOps == {"post", "cancelQueued", "cancelOngoing", "AddBuild"}

SideEffects == { i \in EvIdx : events[i].op \in SideEffectOps }

\* The calls and prints made while a change-group is processed.
GroupSteps == { i \in EvIdx : events[i].group # 0 }

\* The lines of a log that name change cl, and the patchsets they give it.
LoggedPatchsets(file, cl) ==
    { file[i][3] : i \in { j \in 1..Len(file) : Len(file[j]) = 3 /\ file[j][2] = cl } }

LoggedCLs(file) == { file[i][2] : i \in { j \in 1..Len(file) : Len(file[j]) = 3 } }

\* C3: first-run suppression.  In a run whose registry, as loaded from the
\* log, is empty, no change-group is diffed or dispatched: the run never
\* reaches the diff or the dispatch loop, and it posts no message, cancels no
\* build and triggers no build, whatever the query returns.
C3_FirstRunSuppression ==
    (DOMAIN prevCLsMap = {})
    => /\ pc \notin {"diff", "send"}
       /\ clLists = <<>>
       /\ SideEffects = {}
       /\ GroupSteps = {}

\* C3 witness: a run with an empty log has ended after a query that returned
\* change 100 at patchset 2 and an incomplete multi-part change, with build
\* 100/1 still queued and the log rewritten.
C3_Witness ==
    /\ pc = "done" /\ ret = "nil"
    /\ logAtStart = <<>>
    /\ Succeeded("ReadLog") # {} /\ Succeeded("Query") # {} /\ Succeeded("WriteLog") # {}
    /\ \E i \in 1..Len(curCLs) : curCLs[i].number = 100 /\ curCLs[i].patchset = 2
    /\ \E i \in 1..Len(curCLs) : curCLs[i].part.total > Len(curCLs)
    /\ \E i \in 1..Len(queued) : queued[i].refs = << RefOf(100, 1) >>
    /\ logFile # <<>>

\* The groups of the query result, before the diff.
QueryGroups == groupCLs(curCLs).groups

HasNewMember(l) ==
    \E i \in 1..Len(l) :
        \/ l[i].number \notin DOMAIN prevCLsMap
        \/ prevCLsMap[l[i].number] < l[i].patchset

\* C4: Diff.  Against a non-empty previous registry, the lists handed to the
\* dispatch loop are exactly the groups of the query result with at least one
\* member absent from the registry or recorded there at a strictly lower
\* patchset, in the order of the groups; a group whose every member is at
\* its recorded patchset is not among them.
C4_Diff ==
    (pc = "send" /\ DOMAIN prevCLsMap # {})
    => /\ clLists = SelectSeq(QueryGroups, HasNewMember)
       /\ \A i \in 1..Len(QueryGroups) :
              (\A k \in 1..Len(QueryGroups[i]) :
                   /\ QueryGroups[i][k].number \in DOMAIN prevCLsMap
                   /\ prevCLsMap[QueryGroups[i][k].number] = QueryGroups[i][k].patchset)
              => \A j \in 1..Len(clLists) : clLists[j] # QueryGroups[i]

\* C4 witness: of two changes in the registry, the one whose patchset rose is
\* handed to the dispatch loop and the one at its recorded patchset is not.
C4_Witness ==
    /\ pc = "send"
    /\ DOMAIN prevCLsMap = {100, 200}
    /\ Len(QueryGroups) = 2
    /\ Len(clLists) = 1
    /\ \E i \in 1..2 : /\ prevCLsMap[QueryGroups[i][1].number] = QueryGroups[i][1].patchset
                       /\ clLists[1] # QueryGroups[i]
    /\ prevCLsMap[clLists[1][1].number] < clLists[1][1].patchset

CL100(ps) == Change(100, ps, RefOf(100, ps), "core", GoogleOwner, "all", NoPart)

\* C5: the two-run scenario.  A run that starts from an empty log and whose
\* query returns change 100 at patchset 1 triggers no build and leaves the log
\* {100:1}.  A run that starts from the log {100:1}, whose query returns
\* change 100 at patchset 2 and whose dispatch loop has processed the group
\* with every call succeeding, has left no queued build with refs 100/1, has
\* made every cancellation before the trigger, and has triggered exactly one
\* build, whose REFS is the ref of 100/2.
C5_TwoRuns ==
    /\ (/\ pc = "done" /\ failedAt = "" /\ logAtStart = <<>>
        /\ Succeeded("WriteLog") # {} /\ curCLs = << CL100(1) >>)
       => /\ Called("AddBuild") = {}
          /\ logFile = << RefOf(100, 1) >>
    /\ (/\ pc = "send" /\ idx = 2 /\ logAtStart = << RefOf(100, 1) >>
        /\ curCLs = << CL100(2) >>
        /\ \A i \in EvIdx : events[i].ok)
       => /\ logFile = << RefOf(100, 2) >>
          /\ \A i \in 1..Len(queued) : queued[i].refs # << RefOf(100, 1) >>
          /\ Cardinality(Called("AddBuild")) = 1
          /\ \A i \in Called("AddBuild") :
                 /\ events[i].refs = << RefOf(100, 2) >>
                 /\ \E j \in 1..Len(queued) :
                        queued[j].id = events[i].id /\ queued[j].refs = << RefOf(100, 2) >>
                 /\ \A j \in Called("cancelQueued") \cup Called("cancelOngoing") : j < i

\* C5 witness: the second run has cancelled the queued build 100/1 and then
\* triggered the build of 100/2.
C5_Witness ==
    /\ runs = 2 /\ pc = "send" /\ idx = 2
    /\ logAtStart = << RefOf(100, 1) >>
    /\ curCLs = << CL100(2) >>
    /\ \E i \in Succeeded("cancelQueued"), j \in Succeeded("AddBuild") :
           /\ i < j
           /\ events[i].refs = << RefOf(100, 1) >>
           /\ events[j].refs = << RefOf(100, 2) >>

\* C6: a run in which reading the log or the query fails ends there with an
\* error: the log is as it was when the run started and nothing else has
\* been called.  A run writes the log only after its query has succeeded.
C6_FailedReadOrQuery ==
    /\ (Failed("ReadLog") \cup Failed("Query") # {})
       => /\ pc = "done" /\ ret = "err"
          /\ logFile = logAtStart
          /\ Called("WriteLog") = {} /\ SideEffects = {} /\ GroupSteps = {}
    /\ \A i \in Called("WriteLog") : \E j \in Succeeded("Query") : j < i
    /\ (pc \notin {"idle", "done"} /\ Called("WriteLog") = {}) => logFile = logAtStart

\* C6 witness: the query of a run over a non-empty registry has failed.
C6_Witness ==
    /\ pc = "done" /\ ret = "err" /\ failedAt = "Query"
    /\ Failed("Query") # {}
    /\ DOMAIN prevCLsMap # {}
    /\ logFile = logAtStart /\ logFile # <<>>

----------------------------------------------------------------------------
(* A change-group in the dispatch loop *)

\* The loop has gone through group g: it went on to the next group, or it
\* ended at g.
Processed(g) ==
    \/ g < idx
    \/ g = idx /\ pc = "done" /\ failedAt \in {"send", "processCLList"}

EventsOf(g) == SelectSeq(events, LAMBDA e : e.group = g)

PostsOf(g) == SelectSeq(EventsOf(g), LAMBDA e : e.op = "post")

BuildsOf(g) == SelectSeq(EventsOf(g), LAMBDA e : e.op = "AddBuild")

\* The members of group g in the projects of the manifest.
Kept(g) == SelectSeq(clLists[g], LAMBDA c : projects.nil \/ c.project \in projects.names)

RefsParse(l) == \A i \in 1..Len(l) : Len(l[i].ref) = 3

OptsOut(l) == \E i \in 1..Len(l) : l[i].presubmit = "none"

Trusted(owner) ==
    \/ owner.host = "google.com"
    \/ \E we \in emailWhitelist : we = ToLower(owner)

Untrusted(l) == \E i \in 1..Len(l) : ~Trusted(l[i].owner)

\* The tests configured for the projects of the members l.
TestsFor(l) == UNION { { ConfigProjectTests(l[i].project)[k] :
                           k \in 1..Len(ConfigProjectTests(l[i].project)) } : i \in 1..Len(l) }

ConfigLoaded(g) == \A i \in 1..Len(EventsOf(g)) : EventsOf(g)[i].op # "LoadConfig"

\* C9 as stated: a processed group with tests configured and no opt-out, one
\* of whose members (of a project of the manifest) has an untrusted owner, has
\* no build triggered and one manual-trigger link posted, wherever that
\* member stands in the group.
C9_Claim ==
    \A g \in 1..Len(clLists) :
        (/\ Processed(g)
         /\ Kept(g) # <<>> /\ RefsParse(Kept(g))
         /\ ~OptsOut(Kept(g)) /\ ConfigLoaded(g) /\ TestsFor(Kept(g)) # {}
         /\ Untrusted(Kept(g)))
        => /\ BuildsOf(g) = <<>>
           /\ Len(PostsOf(g)) = 1
           /\ PostsOf(g)[1].what = "manual trigger link"

\* C10 as stated: a processed group with a member that opts out, or whose
\* projects have no tests, has no build triggered and exactly one message,
\* with the verified label set, posted.
C10_Claim ==
    \A g \in 1..Len(clLists) :
        (/\ Processed(g)
         /\ RefsParse(clLists[g]) /\ ConfigLoaded(g)
         /\ (OptsOut(clLists[g]) \/ TestsFor(clLists[g]) = {}))
        => /\ BuildsOf(g) = <<>>
           /\ Len(PostsOf(g)) = 1
           /\ PostsOf(g)[1].verified

\* C10, amended: the gate looks at the members of the group in the projects
\* of the manifest only.  When one of them opts out, or when none opts out,
\* the configuration has loaded and their projects have no tests, no build is
\* triggered for the group and exactly one post, with the verified label
\* set, is made to the refs of those members; when that post fails the loop
\* ends with the error.  A group with no member in the manifest's projects
\* gets no message and no build.
C10_Gating ==
    \A g \in 1..Len(clLists) :
        (Processed(g) /\ RefsParse(Kept(g)))
        => /\ (Kept(g) = <<>>)
              => (BuildsOf(g) = <<>> /\ PostsOf(g) = <<>>)
           /\ (/\ Kept(g) # <<>>
               /\ \/ OptsOut(Kept(g))
                  \/ ConfigLoaded(g) /\ TestsFor(Kept(g)) = {})
              => /\ BuildsOf(g) = <<>>
                 /\ Len(PostsOf(g)) = 1
                 /\ PostsOf(g)[1].verified
                 /\ PostsOf(g)[1].refs = [i \in 1..Len(Kept(g)) |-> Kept(g)[i].ref]
                 /\ PostsOf(g)[1].what = (IF OptsOut(Kept(g)) THEN "Presubmit tests skipped"
                                          ELSE "No tests found")
                 /\ ~PostsOf(g)[1].ok => (pc = "done" /\ ret = "err" /\ idx = g)

\* C10 witness: a group whose first member opts out and whose second does
\* not, both in project core, has been passed over with one verified post;
\* and the group after it has been triggered.
C10_Witness ==
    /\ Len(clLists) = 2 /\ idx = 3
    /\ Len(clLists[1]) = 2 /\ Kept(1) = clLists[1]
    /\ clLists[1][1].presubmit = "none" /\ clLists[1][2].presubmit = "all"
    /\ BuildsOf(1) = <<>>
    /\ Len(PostsOf(1)) = 1 /\ PostsOf(1)[1].verified /\ PostsOf(1)[1].ok
    /\ Len(BuildsOf(2)) = 1

----------------------------------------------------------------------------
(* A group that passes the gates *)

\* The indices in events of the calls op made for group g.
CallsOf(g, op) == { i \in EvIdx : events[i].group = g /\ events[i].op = op }

RefsOf(l) == [i \in 1..Len(l) |-> l[i].ref]

ProjectsOf(l) == [i \in 1..Len(l) |-> l[i].project]

\* The change number -> patchset map of the members l, read off their refs.
GroupMap(l) == [cl \in BuildCLSet(RefsOf(l)) |-> BuildPatchset(RefsOf(l), cl)]

\* A build with the (well-formed) refs is outdated with respect to map m.
Outdated(refs, m) ==
    IF BuildCLSet(refs) = DOMAIN m
    THEN \A cl \in DOMAIN m : m[cl] >= BuildPatchset(refs, cl)
    ELSE \E cl \in BuildCLSet(refs) \cap DOMAIN m : m[cl] >= BuildPatchset(refs, cl)

\* The tests of the members l: every configured test of their projects once,
\* a test with parts as its part-suffixed names, in ascending order.
ExpectedTests(l) ==
    LET names == UNION { IF ConfigTestParts(t).nil THEN { t }
                         ELSE { testNameWithPartSuffix(t, i) :
                                  i \in 0..ConfigTestParts(t).parts } : t \in TestsFor(l) }
    IN  CHOOSE s \in [1..Cardinality(names) -> names] :
            /\ { s[i] : i \in 1..Cardinality(names) } = names
            /\ \A i \in 1..(Cardinality(names) - 1) : LexLess(s[i], s[i + 1])

\* The members of g left by the project filter pass every gate of the loop as
\* the code applies them (the owner gate looks at the last member).
PassesGates(g) ==
    /\ Kept(g) # <<>> /\ RefsParse(Kept(g))
    /\ ~OptsOut(Kept(g)) /\ ConfigLoaded(g) /\ TestsFor(Kept(g)) # {}
    /\ Trusted(Kept(g)[Len(Kept(g))].owner)

\* The cancellation of outdated builds for g came before the build request:
\* the queued listing, its cancellations, the ongoing listing, its
\* cancellations, then the request; and every build cancelled was outdated
\* with respect to the map m.
CancelledThenAdded(g, m) ==
    /\ Cardinality(CallsOf(g, "QueuedBuilds")) = 1
    /\ Cardinality(CallsOf(g, "OngoingBuilds")) = 1
    /\ Cardinality(CallsOf(g, "AddBuild")) = 1
    /\ \A q \in CallsOf(g, "QueuedBuilds"), o \in CallsOf(g, "OngoingBuilds"),
          a \in CallsOf(g, "AddBuild") :
           /\ q < o /\ o < a
           /\ \A c \in CallsOf(g, "cancelQueued") : q < c /\ c < o
           /\ \A c \in CallsOf(g, "cancelOngoing") : o < c /\ c < a
    /\ \A c \in CallsOf(g, "cancelQueued") \cup CallsOf(g, "cancelOngoing") :
           WellFormedRefs(events[c].refs) /\ Outdated(events[c].refs, m)

\* C11 as stated: a processed group that passes the gates has its outdated
\* builds cancelled, with its own map, before the one build request, whose
\* REFS and PROJECTS are those of the members of the group and whose TESTS is
\* the computed list.
C11_Claim ==
    \A g \in 1..Len(clLists) :
        (Processed(g) /\ PassesGates(g))
        => /\ CancelledThenAdded(g, GroupMap(Kept(g)))
           /\ \A a \in CallsOf(g, "AddBuild") :
                  /\ events[a].refs = RefsOf(clLists[g])
                  /\ events[a].projects = ProjectsOf(clLists[g])
                  /\ events[a].tests = ExpectedTests(Kept(g))

\* C11, amended: the group is its members in the projects of the manifest.
\* For a processed group whose remaining members pass the gates, the queued
\* pass and then the ongoing pass are made with the map of the remaining
\* members and are over before the one build request; REFS and PROJECTS are
\* the refs and projects of the remaining members in group order and TESTS
\* the computed test list.  No other group gets a build request.
C11_CancelThenAdd ==
    \A g \in 1..Len(clLists) :
        /\ (Processed(g) /\ PassesGates(g))
           => /\ CancelledThenAdded(g, GroupMap(Kept(g)))
              /\ \A a \in CallsOf(g, "AddBuild") :
                     /\ events[a].refs = RefsOf(Kept(g))
                     /\ events[a].projects = ProjectsOf(Kept(g))
                     /\ events[a].tests = ExpectedTests(Kept(g))
        /\ (Processed(g) /\ RefsParse(Kept(g)) /\ ~PassesGates(g))
           => CallsOf(g, "AddBuild") = {}

\* C11 witness: for a group of changes 100 and 200 the queued build 100/1 and
\* then the ongoing build 200/1 were cancelled, and then the request made.
C11_Witness ==
    /\ Processed(1) /\ PassesGates(1) /\ Len(Kept(1)) = 2
    /\ \E cq \in CallsOf(1, "cancelQueued"), co \in CallsOf(1, "cancelOngoing"),
          a \in CallsOf(1, "AddBuild") :
           /\ cq < co /\ co < a
           /\ events[cq].ok /\ events[co].ok /\ events[a].ok
           /\ events[a].refs = << RefOf(100, 2), RefOf(200, 2) >>

----------------------------------------------------------------------------
(* Failures while a group is processed *)

FailedCallsOf(g, op) == { i \in CallsOf(g, op) : ~events[i].ok }

\* The loop has stopped at group g with an error.
StoppedAt(g) == pc = "done" /\ failedAt = "send" /\ idx = g /\ ret = "err"

\* The loop went on from group g to the next group.
WentOnFrom(g) == idx > g

CancellationFailures(g) ==
    FailedCallsOf(g, "QueuedBuilds") \cup FailedCallsOf(g, "cancelQueued")
        \cup FailedCallsOf(g, "OngoingBuilds") \cup FailedCallsOf(g, "cancelOngoing")

\* C13: best-effort cancellation.  When listing or cancelling the queued or
\* the ongoing builds fails for a group, the failure is counted in what
\* removeOutdatedBuilds returns and nothing more: the ongoing pass is made
\* after a failed queued pass, the build request for the group is made after
\* both, and the loop goes on to the next group.
C13_BestEffortCancel ==
    \A g \in 1..Len(clLists) :
        \A f \in CancellationFailures(g) :
            /\ \E o \in CallsOf(g, "OngoingBuilds") :
                   events[f].op \in {"QueuedBuilds", "cancelQueued"} => f < o
            /\ \E a \in CallsOf(g, "AddBuild") : f < a
            /\ \E r \in CallsOf(g, "removeOutdated") : ~events[r].ok /\ r < f
            /\ WentOnFrom(g)
            /\ ~(pc = "done" /\ ret = "err" /\ failedAt = "send" /\ idx = g)

\* C13 witness: cancelling the queued build 100/1 failed; the ongoing build
\* 200/1 was then cancelled and the build of the group requested.
C13_Witness ==
    \E f \in FailedCallsOf(1, "cancelQueued"), o \in CallsOf(1, "cancelOngoing"),
       a \in CallsOf(1, "AddBuild") :
        /\ f < o /\ o < a
        /\ events[o].ok /\ events[a].ok
        /\ \E i \in 1..Len(queued) : queued[i].refs = << RefOf(100, 1) >>

\* C14 as stated: every group handed to the loop ends in one outcome, and a
\* group with a member (in a project of the manifest) whose ref does not
\* parse is an error of that group only: the loop does not crash and goes on
\* to the next group.
C14_Claim ==
    /\ ret # "panic"
    /\ \A g \in 1..Len(clLists) :
           (Processed(g) /\ ~RefsParse(Kept(g))) => WentOnFrom(g)

-----------------------------------------------------------------------------
(* The list of tests of a set of projects *)

\* The configured tests of the projects given.
ConfiguredTests(projs) ==
    { ConfigProjectTests(projs[i])[j] :
        <<i, j>> \in { p \in (1..Len(projs)) \X (1..2) :
                          p[2] <= Len(ConfigProjectTests(projs[p[1]])) } }

\* The names under which a test is run: itself, or, with a part
\* configuration of n parts, its names with the suffixes 0..n.
NamesOf(t) ==
    IF ConfigTestParts(t).nil THEN { t }
    ELSE { testNameWithPartSuffix(t, i) : i \in 0..ConfigTestParts(t).parts }

\* C15: the list getTestsToRun returns holds, for every configured test of
\* the projects, one entry if the test has no part configuration and
\* partCount + 1 entries (suffixes 0..partCount) if it has one, nothing else,
\* and is in ascending lexicographic order.
C15_TestList ==
    (tResult.called /\ ~tResult.err) =>
        LET tests == tResult.tests
            T == ConfiguredTests(tProjects)
        IN  /\ \A i \in 1..Len(tests) : \E t \in T : tests[i] \in NamesOf(t)
            /\ \A t \in T :
                   /\ \A n \in NamesOf(t) :
                          Cardinality({ i \in 1..Len(tests) : tests[i] = n }) = 1
                   /\ Cardinality({ i \in 1..Len(tests) : tests[i] \in NamesOf(t) })
                        = IF ConfigTestParts(t).nil THEN 1
                          ELSE ConfigTestParts(t).parts + 1
            /\ \A i \in 1..(Len(tests) - 1) : LexLess(tests[i], tests[i + 1])

\* The tests of core and tools: go in its parts 0 and 1, after go-a.
C15_Witness ==
    /\ tResult.called /\ ~tResult.err
    /\ tProjects = <<"core", "tools">>
    /\ tResult.tests = <<TestGoA, testNameWithPartSuffix(TestGo, 0),
                         testNameWithPartSuffix(TestGo, 1), TestJs>>

-----------------------------------------------------------------------------
(* Multi-part errors *)

\* The diff of the run has been made and its errors gone through.
DiffDone ==
    /\ Succeeded("WriteLog") # {}
    /\ pc \in {"send", "done"}
    /\ ~(ret = "nil" /\ projects.nil)

MultiPartErrors == NewOpenCLs(prevCLsMap, curCLs).errs

MultiPartPosts == SelectSeq(events, LAMBDA e : e.op = "post" /\ e.what = "multipart")

\* C16: once the diff is made, for every multi-part error one comment
\* without the verified label has been posted to the ref of the change the
\* error names, in the order of the errors and whether or not an earlier
\* post failed; the groups of the diff are handed to the dispatch loop, and
\* if one of them is left unprocessed at the end of the run, it is because
\* the manifest or the dispatch loop failed, never a multi-part post.
C16_MultiPartErrors ==
    DiffDone =>
        /\ Len(MultiPartPosts) = Len(MultiPartErrors)
        /\ \A i \in 1..Len(MultiPartPosts) :
               /\ MultiPartPosts[i].refs = << MultiPartErrors[i].ref >>
               /\ ~MultiPartPosts[i].verified
        /\ clLists = NewOpenCLs(prevCLsMap, curCLs).lists
        /\ (pc = "done" /\ \E g \in 1..Len(clLists) : ~Processed(g))
             => failedAt \in {"LoadManifest", "send", "processCLList"}
        /\ (pc = "done" /\ ret = "err")
             => failedAt \in {"LoadManifest", "send", "submitCLs"}

\* The post for a multi-part error failed, and the new group of the same
\* query result got its build.
C16_Witness ==
    /\ DiffDone
    /\ \E i \in 1..Len(MultiPartPosts) : ~MultiPartPosts[i].ok
    /\ \E i \in EvIdx : events[i].op = "AddBuild" /\ events[i].ok

\* Two multi-part errors: the post for the first failed, the second was
\* posted all the same.
C16_TwoErrors ==
    /\ DiffDone
    /\ Len(MultiPartPosts) = 2
    /\ ~MultiPartPosts[1].ok /\ MultiPartPosts[2].ok

-----------------------------------------------------------------------------
(* Removal of outdated builds *)

CancelledIds == { events[i].id : i \in Called("cancelQueued") \cup Called("cancelOngoing") }

\* The builds that were queued, and those that were building, when
\* removeOutdatedBuilds was called.
QueuedBefore == { rmResult.queued[i] : i \in 1..Len(rmResult.queued) }

BuildingBefore ==
    { rmResult.ongoing[i] : i \in { j \in 1..Len(rmResult.ongoing) :
                                       rmResult.ongoing[j].building } }

StillQueued(b) == \E i \in 1..Len(queued) : queued[i] = b

StillBuilding(b) == \E i \in 1..Len(ongoing) : ongoing[i] = b

\* C17: isBuildOutdated, called for refs of which one does not parse,
\* returns an error and not the verdict outdated; and removeOutdatedBuilds
\* cancels no build with such refs, queued or under way: the build is left
\* as it was.
C17_UnparsableRefs ==
    /\ (obResult.called /\ ~WellFormedRefs(obRefs))
         => (obResult.err /\ ~obResult.outdated)
    /\ rmResult.called =>
           /\ \A b \in QueuedBefore :
                  ~WellFormedRefs(b.refs) => (StillQueued(b) /\ b.id \notin CancelledIds)
           /\ \A b \in BuildingBefore :
                  ~WellFormedRefs(b.refs) => (StillBuilding(b) /\ b.id \notin CancelledIds)

\* An outdated queued build was cancelled, and the build under way, of the
\* same change with a second ref that does not parse, was left building.
C17_Witness ==
    /\ rmResult.called
    /\ Succeeded("cancelQueued") # {}
    /\ \E b \in BuildingBefore :
           /\ b.refs = << RefOf(100, 1), <<100>> >>
           /\ StillBuilding(b)

\* C20 as stated: when removeOutdatedBuilds has returned without an error,
\* no build whose non-empty refs are outdated with respect to the map is left
\* in the queue or building.
C20_Claim ==
    (rmResult.called /\ rmResult.errs = 0) =>
        /\ \A b \in QueuedBefore :
               (WellFormedRefs(b.refs) /\ Outdated(b.refs, obNewCLs)) => ~StillQueued(b)
        /\ \A b \in BuildingBefore :
               (WellFormedRefs(b.refs) /\ Outdated(b.refs, obNewCLs)) => ~StillBuilding(b)

-----------------------------------------------------------------------------
(* The multi-part marker *)

DigitsOnly(str) == str # <<>> /\ \A i \in 1..Len(str) : IsDigit(str[i])

\* The number a string of digits denotes in decimal.
RECURSIVE DecimalValue(_)
DecimalValue(str) ==
    IF str = <<>> THEN 0
    ELSE 10 * DecimalValue(SubSeq(str, 1, Len(str) - 1)) + (str[Len(str)] - 48)

\* fmt.Sprintf("%d", n) of n >= 0.
RECURSIVE Itoa(_)
Itoa(n) == IF n < 10 THEN << 48 + n >> ELSE Itoa(n \div 10) \o << 48 + (n % 10) >>

\* The message was put together with the label as it is to be written, an
\* index and a total in digits, and the slash.
WellMarked(m) ==
    /\ m.label = MultiPartLabel
    /\ DigitsOnly(m.index) /\ m.slash = <<47>> /\ DigitsOnly(m.total)

\* The table of TestParseMultiPartMatch.
testCases ==
    {
      \* 'message...\nMultiPart: a/3'
      [str |-> <<109, 101, 115, 115, 97, 103, 101, 46, 46, 46, 10, 77, 117, 108, 116, 105, 80, 97, 114, 116, 58, 32, 97, 47, 51>>,
       expectNoMatches |-> TRUE, expectedIndex |-> <<>>, expectedTotal |-> <<>>],
      \* 'message...\n1/3'
      [str |-> <<109, 101, 115, 115, 97, 103, 101, 46, 46, 46, 10, 49, 47, 51>>,
       expectNoMatches |-> TRUE, expectedIndex |-> <<>>, expectedTotal |-> <<>>],
      \* 'message...\nMultiPart:1/2'
      [str |-> <<109, 101, 115, 115, 97, 103, 101, 46, 46, 46, 10, 77, 117, 108, 116, 105, 80, 97, 114, 116, 58, 49, 47, 50>>,
       expectNoMatches |-> FALSE, expectedIndex |-> <<49>>, expectedTotal |-> <<50>>],
      \* 'message...\nMultiPart: 1/2'
      [str |-> <<109, 101, 115, 115, 97, 103, 101, 46, 46, 46, 10, 77, 117, 108, 116, 105, 80, 97, 114, 116, 58, 32, 49, 47, 50>>,
       expectNoMatches |-> FALSE, expectedIndex |-> <<49>>, expectedTotal |-> <<50>>],
      \* 'message...\nMultiPart: 1 /2'
      [str |-> <<109, 101, 115, 115, 97, 103, 101, 46, 46, 46, 10, 77, 117, 108, 116, 105, 80, 97, 114, 116, 58, 32, 49, 32, 47, 50>>,
       expectNoMatches |-> FALSE, expectedIndex |-> <<49>>, expectedTotal |-> <<50>>],
      \* 'message...\nMultiPart: 1/ 2'
      [str |-> <<109, 101, 115, 115, 97, 103, 101, 46, 46, 46, 10, 77, 117, 108, 116, 105, 80, 97, 114, 116, 58, 32, 49, 47, 32, 50>>,
       expectNoMatches |-> FALSE, expectedIndex |-> <<49>>, expectedTotal |-> <<50>>],
      \* 'message...\nMultiPart: 1 / 2'
      [str |-> <<109, 101, 115, 115, 97, 103, 101, 46, 46, 46, 10, 77, 117, 108, 116, 105, 80, 97, 114, 116, 58, 32, 49, 32, 47, 32, 50>>,
       expectNoMatches |-> FALSE, expectedIndex |-> <<49>>, expectedTotal |-> <<50>>],
      \* 'message...\nMultiPart: 123/234'
      [str |-> <<109, 101, 115, 115, 97, 103, 101, 46, 46, 46, 10, 77, 117, 108, 116, 105, 80, 97, 114, 116, 58, 32, 49, 50, 51, 47, 50, 51, 52>>,
       expectNoMatches |-> FALSE, expectedIndex |-> <<49, 50, 51>>, expectedTotal |-> <<50, 51, 52>>]
    }

\* C18: a message matches exactly when it holds the label MultiPart: as
\* written, then a decimal index, a slash and a decimal total, with any
\* spaces after the label and on either side of the slash; the index and the
\* total parsed are the decimal values written; in particular every case of
\* the table of TestParseMultiPartMatch comes out as the table expects.
C18_Marker ==
    mResult.called =>
        /\ mResult.ok <=> WellMarked(mMessage)
        /\ mResult.ok => /\ mResult.index = DecimalValue(mMessage.index)
                         /\ mResult.total = DecimalValue(mMessage.total)
        /\ \A test \in testCases :
               mMessage.str = test.str =>
                   /\ mResult.ok = ~test.expectNoMatches
                   /\ mResult.ok => /\ Itoa(mResult.index) = test.expectedIndex
                                    /\ Itoa(mResult.total) = test.expectedTotal

\* "message...\nMultiPart: 123/234" parsed to 123 and 234.
C18_Witness ==
    /\ mResult.called /\ mResult.ok
    /\ mMessage.str = <<109, 101, 115, 115, 97, 103, 101, 46, 46, 46, 10, 77, 117, 108, 116, 105, 80, 97, 114, 116, 58, 32, 49, 50, 51, 47, 50, 51, 52>>
    /\ mResult.index = 123 /\ mResult.total = 234

-----------------------------------------------------------------------------
(* A group that did not get its build, and the next run *)

\* Group g was handed to the dispatch loop of the run that has ended, and
\* got no build: its build request failed, the loop returned an error while
\* processing it, or the manifest could not be loaded.
LeftOut(g) ==
    /\ pc = "done"
    /\ \/ FailedCallsOf(g, "AddBuild") # {}
       \/ StoppedAt(g)
       \/ failedAt = "LoadManifest"

\* The diff of a run that reads the log as it is now finds the members l
\* new: the log lacks one of them or has it at a lower patchset.
NewAgainstLog(l) ==
    \E i \in 1..Len(l) :
        \/ l[i].number \notin LoggedCLs(logFile)
        \/ \E p \in LoggedPatchsets(logFile, l[i].number) : p < l[i].patchset

C19_NextRun ==
    /\ runs = 2 /\ pc = "send"
    /\ logAtStart = << RefOf(100, 2) >> /\ curCLs = << CL100(2) >>
    /\ clLists = <<>>
    /\ \A i \in 1..Len(queued) : queued[i].refs # << RefOf(100, 2) >>

-----------------------------------------------------------------------------
(* The count printed at the end of a run *)

\* The number of members of the groups of the run whose build request
\* succeeded.
RECURSIVE MembersSent(_)
MembersSent(S) ==
    IF S = {} THEN 0
    ELSE LET i == Min(S) IN Len(Kept(events[i].group)) + MembersSent(S \ {i})

\* C21 as stated: when a run has ended, on whatever path, the count it
\* prints ("N sent.", the value of numSentCLs when runQuery returns) is the
\* number of members of the groups whose build request succeeded in the run.
C21_Claim == (pc = "done") => numSentCLs = MembersSent(Succeeded("AddBuild"))

-----------------------------------------------------------------------------
(* The last completed build *)

\* C22: the step a run takes once the status of the last completed build is
\* known.  After FAILURE the run returns nil there and then: the log is
\* neither read nor written, nothing is queried or posted, no build is
\* cancelled or requested, and nothing was sent.  After a failed lookup the
\* run goes on as after any other status, with reading the log.
C22_LastBuildFailure ==
    [][(pc = "lastbuild") =>
          IF lastBuild = "FAILURE"
          THEN /\ pc' = "done" /\ ret' = "nil" /\ failedAt' = ""
               /\ events' = <<>>
               /\ logFile' = logFile /\ queued' = queued /\ ongoing' = ongoing
               /\ nextId' = nextId /\ numSentCLs' = 0
          ELSE /\ Len(events') = 1 /\ events'[1].op = "ReadLog"
               /\ \/ pc' = "query" /\ events'[1].ok /\ ret' = "none"
                  \/ pc' = "done" /\ ~events'[1].ok /\ ret' = "err"]_vars

\* A run over a non-empty log and a non-empty queue has ended without an
\* error and without a single call after the status lookup, as it does
\* after FAILURE only.
C22_Witness ==
    /\ pc = "done" /\ ret = "nil" /\ runs >= 1
    /\ events = <<>>
    /\ logFile # <<>> /\ logFile = logAtStart
    /\ queued # <<>>

-----------------------------------------------------------------------------
(* snapshot create *)

\* The work tree, the index and HEAD are those of commit c, and nothing
\* untracked is left.
RepositoryAt(c) ==
    /\ snap.head = c /\ snap.index = snap.commits[c]
    /\ snap.files = snap.commits[c].files /\ snap.link = snap.commits[c].link
    /\ snap.new = 0 /\ ~snap.stray

\* C23: a run of snapshot create in which a step of createSnapshot has
\* failed leaves the repository at the commit it was at before, without
\* untracked files: the new snapshot file is gone, the label's symlink is
\* what that commit has, and the remote does not have the snapshot.  A run
\* that has succeeded leaves the symlink on the new snapshot file, both
\* committed and, in remote mode, pushed.
C23_AllOrNothing ==
    /\ (snap.pc = "failed" /\ snap.failedAt \notin {"runTests", "LatestCommitID"})
         => /\ RepositoryAt(snap.revision)
            /\ snap.snapshotFile \notin snap.files
            /\ snap.link # snap.snapshotFile
            /\ snap.snapshotFile \notin snap.commits[snap.origin].files
    /\ (snap.pc = "ok")
         => /\ snap.link = snap.snapshotFile /\ snap.snapshotFile \in snap.files
            /\ snap.new = 0
            /\ snap.commits[snap.head].link = snap.snapshotFile
            /\ snap.snapshotFile \in snap.commits[snap.head].files
            /\ snap.remote => snap.origin = snap.head

\* In remote mode the push of the second snapshot has failed: the symlink
\* is back on the first snapshot file.
C23_Witness ==
    /\ snap.pc = "failed" /\ snap.failedAt = "Push" /\ snap.remote
    /\ snap.snapshotFile = 2 /\ snap.link = 1 /\ snap.files = {1}
    /\ snap.origin = snap.head

-----------------------------------------------------------------------------
(* snapshot list *)

\* <label> is a symlink that resolves.
Resolves(l) == ls.links[l].kind = "symlink" /\ Exists(ls.dirs, ls.links[l].dst)

\* <label> is a symlink that resolves to a file of a directory whose path
\* ends in labels/<label>.
IntoLabelDir(l) ==
    /\ Resolves(l)
    /\ LET dst == ls.links[l].dst
       IN  /\ Len(dst) >= 3 /\ dst[Len(dst) - 1] = l
           /\ \E prefix \in {<<>>, <<109, 121>>} : dst[Len(dst) - 2] = prefix \o LabelsDir

Dangling == { l \in LabelNames : ls.links[l].kind = "symlink" /\ ~Resolves(l) }

\* The labels the command is to list: those of the command line, or the
\* known ones.
Requested ==
    IF ls.args # <<>> THEN { ls.args[i] : i \in DOMAIN ls.args }
    ELSE { l \in LabelNames : IntoLabelDir(l) }

NoDirectory(l) == ls.dirs[l].kind = "none"

\* The header lines of the listing, in order.
Headers == SelectSeq(ls.out, LAMBDA line : line.snap = 0)

HeaderLabels == { Headers[i].label : i \in DOMAIN Headers }

Ascending(labels) ==
    \A i, j \in DOMAIN labels : i < j => ~LexLess(labels[j].label, labels[i].label)

\* The lines from header h up to the next header are the snapshots of the
\* label, all of them, in order.
FollowedByAll(h) ==
    LET at == CHOOSE k \in DOMAIN ls.out :
                  /\ ls.out[k].snap = 0
                  /\ Len(SelectSeq(SubSeq(ls.out, 1, k), LAMBDA line : line.snap = 0)) = h
        l == ls.out[at].label
        n == ls.dirs[l].n
    IN  /\ at + n <= Len(ls.out)
        /\ \A i \in 1..n : ls.out[at + i] = [label |-> l, snap |-> i]
        /\ (at + n < Len(ls.out)) => ls.out[at + n + 1].snap = 0

\* How often the label is asked for.
Asked(l) ==
    IF ls.args = <<>> THEN 1 ELSE Len(SelectSeq(ls.args, LAMBDA a : a = l))

Listed(l) == Len(SelectSeq(Headers, LAMBDA line : line.label = l))

\* The listing is that of the labels asked for, each as often as asked for.
FullListing ==
    /\ \A l \in LabelNames : Listed(l) = IF l \in Requested THEN Asked(l) ELSE 0
    /\ Ascending(Headers)
    /\ \A h \in DOMAIN Headers : FollowedByAll(h)

\* C24 as stated: without labels on the command line the command lists
\* exactly the labels whose symlink resolves into labels/<label>; when a
\* requested label has no directory labels/<label> it returns exit code 2
\* and lists nothing; otherwise it lists the requested labels in ascending
\* order, each with all its snapshots.
C24_Claim ==
    ls.called =>
        IF \E l \in Requested : NoDirectory(l)
        THEN ls.ret = "exit2" /\ ls.out = <<>>
        ELSE ls.ret = "nil" /\ FullListing

\* C24, corrected: without labels on the command line, a symlink of the
\* snapshot directory that does not resolve makes the command fail with an
\* error and list nothing.  Otherwise the labels are those of the command
\* line or, without any, those whose symlink resolves to a file of a
\* directory whose path ends in labels/<label>.  When one of them has no
\* labels/<label> at all, the command returns exit code 2, names the
\* missing labels and lists nothing.  Otherwise it lists the labels in
\* ascending order, each with all its snapshots; when labels/<label> of one
\* of them is not a directory, the listing stops before the first such
\* label and the command fails with an error.
C24_List ==
    ls.called =>
        IF ls.args = <<>> /\ Dangling # {}
        THEN ls.ret = "err" /\ ls.out = <<>> /\ ls.notFound = <<>>
        ELSE IF \E l \in Requested : NoDirectory(l)
        THEN /\ ls.ret = "exit2" /\ ls.out = <<>>
             /\ { ls.notFound[i] : i \in DOMAIN ls.notFound }
                    = { l \in Requested : NoDirectory(l) }
        ELSE IF \A l \in Requested : ls.dirs[l].kind = "dir"
        THEN ls.ret = "nil" /\ ls.notFound = <<>> /\ FullListing
        ELSE /\ ls.ret = "err" /\ ls.notFound = <<>>
             /\ Ascending(Headers)
             /\ \A h \in DOMAIN Headers : FollowedByAll(h)
             /\ LET unreadable == { l \in Requested : ls.dirs[l].kind = "file" }
                IN  \A l \in Requested :
                       Listed(l) = IF \E u \in unreadable : ~LexLess(l, u) THEN 0
                                   ELSE Asked(l)

\* Both labels are asked for, the later one first; both have snapshots and
\* the listing has beta before stable.
C24_Witness ==
    /\ ls.called /\ ls.ret = "nil"
    /\ ls.args = <<Stable, Beta>>
    /\ ls.dirs[Beta].n = 2 /\ ls.dirs[Stable].n = 1
    /\ Len(ls.out) = 5 /\ ls.out[1].label = Beta /\ ls.out[4].label = Stable

-----------------------------------------------------------------------------
(* Cancellation *)

\* The calls that ask the CI server to cancel a build.
Cancellations == Called("cancelQueued") \cup Called("cancelOngoing")

OngoingBefore == { rmResult.ongoing[i] : i \in 1..Len(rmResult.ongoing) }

\* The build the cancellation events[i] is about.
CancelledBuild(i) ==
    IF events[i].op = "cancelQueued"
    THEN { b \in QueuedBefore : b.id = events[i].id }
    ELSE { b \in BuildingBefore : b.id = events[i].id }

\* C25: removeOutdatedBuilds asks for the cancellation of a build only when
\* the build was queued (cancelQueued) or building (cancelOngoing) and
\* isBuildOutdated, for the refs of the build and the map of the group,
\* returns outdated and no error.  A build without refs, an ongoing build
\* that is not building and a build none of whose change numbers is in the
\* map are never cancelled: they are left as they were.
C25_CancelOnlyOutdated ==
    rmResult.called =>
        /\ \A i \in Cancellations :
               /\ CancelledBuild(i) # {}
               /\ \A b \in CancelledBuild(i) :
                      /\ events[i].refs = b.refs
                      /\ isBuildOutdated(b.refs, obNewCLs).outdated
                      /\ ~isBuildOutdated(b.refs, obNewCLs).err
                      /\ WellFormedRefs(b.refs) /\ Outdated(b.refs, obNewCLs)
        /\ \A b \in QueuedBefore :
               (b.refs = <<>> \/ (WellFormedRefs(b.refs)
                                   /\ BuildCLSet(b.refs) \cap DOMAIN obNewCLs = {}))
                   => (StillQueued(b) /\ b.id \notin CancelledIds)
        /\ \A b \in OngoingBefore :
               (\/ ~b.building \/ b.refs = <<>>
                \/ (WellFormedRefs(b.refs) /\ BuildCLSet(b.refs) \cap DOMAIN obNewCLs = {}))
                   => (StillBuilding(b) /\ b.id \notin CancelledIds)

\* The outdated build of change 100 was cancelled in the queue, the queued
\* build of change 200 alone was left, and so was the build of change 100
\* that had stopped building.
C25_Witness ==
    /\ rmResult.called /\ rmResult.errs = 0
    /\ \E i \in Succeeded("cancelQueued") : events[i].refs = << RefOf(100, 1) >>
    /\ \E b \in QueuedBefore : b.refs = << RefOf(200, 1) >> /\ StillQueued(b)
    /\ \E b \in OngoingBefore :
           /\ ~b.building /\ b.refs = << RefOf(100, 1) >>
           /\ StillBuilding(b)

\* The change numbers of the members of group g.
NumbersOf(g) == { clLists[g][i].number : i \in 1..Len(clLists[g]) }

PairwiseDisjoint ==
    \A g, h \in 1..Len(clLists) : g # h => NumbersOf(g) \cap NumbersOf(h) = {}

\* The builds requested so far in the run.
Submitted == { events[j].id : j \in Succeeded("AddBuild") }

\* C26: in a run whose groups have pairwise disjoint change numbers, no
\* cancellation is asked for a build the run has requested itself: every
\* such build is still in the queue.
C26_OwnBuildsKept ==
    PairwiseDisjoint =>
        /\ \A i \in Cancellations : \A j \in Succeeded("AddBuild") :
               j < i => events[i].id # events[j].id
        /\ \A id \in Submitted : \E k \in 1..Len(queued) : queued[k].id = id

\* The build of the first group was in the queue when the pass of the
\* second group cancelled the build left by an earlier run, and both
\* groups' builds are queued in the end.
C26_Witness ==
    /\ pc = "done" /\ Len(clLists) = 2
    /\ \E j \in Succeeded("AddBuild"), i \in Succeeded("cancelQueued") :
           /\ events[j].group = 1 /\ events[i].group = 2 /\ j < i
    /\ Cardinality(Submitted) = 2
    /\ \A id \in Submitted : \E k \in 1..Len(queued) : queued[k].id = id

-----------------------------------------------------------------------------
(* Skipped groups and the order of the gates *)

\* The calls that list or change the builds of the CI server.
CIOps == {"removeOutdated", "QueuedBuilds", "OngoingBuilds", "cancelQueued",
          "cancelOngoing", "AddBuild"}

CICallsOf(g) == { i \in EvIdx : events[i].group = g /\ events[i].op \in CIOps }

\* The line printed for the group says it was skipped.
PrintedSkip(g) ==
    \E i \in CallsOf(g, "print") :
        events[i].what \in {"SKIP-empty", "SKIP-none", "SKIP-notests", "SKIP-nongoogle"}

VerifiedPosts(g) == { i \in CallsOf(g, "post") : events[i].verified }

ManualPosts(g) == { i \in CallsOf(g, "post") : ~events[i].verified }

\* C27: for a group that is skipped (no member in a project of the
\* manifest, an opt-out, no tests, or an untrusted owner) neither the
\* removal of outdated builds nor the build request is called, and the
\* group adds nothing to clsSent, which counts the members of the groups
\* whose build was requested with success; and every group has at most one
\* of a verified-label message, a manual-trigger link and a build request.
C27_SkippedGroups ==
    /\ \A g \in 1..Len(clLists) :
           /\ (PrintedSkip(g) \/ (Processed(g) /\ ~PassesGates(g))) => CICallsOf(g) = {}
           /\ Cardinality(VerifiedPosts(g)) + Cardinality(ManualPosts(g))
                  + Cardinality(CallsOf(g, "AddBuild")) <= 1
    /\ clsSent = MembersSent(Succeeded("AddBuild"))

\* The first group, of change 100 with an untrusted owner, got the link and
\* the queued build of change 100 was left; the second group was built and
\* is the one member counted.
C27_Witness ==
    /\ pc = "done" /\ Len(clLists) = 2
    /\ \E i \in CallsOf(1, "print") : events[i].what = "SKIP-nongoogle"
    /\ Cardinality(ManualPosts(1)) = 1 /\ CICallsOf(1) = {}
    /\ Succeeded("AddBuild") # {} /\ clsSent = 1
    /\ \E k \in 1..Len(queued) : queued[k].id = 1

\* The first call made for group g.
FirstOf(g) == EventsOf(g)[1]

NoTestsFor(g) == ~OptsOut(Kept(g)) /\ ConfigLoaded(g) /\ TestsFor(Kept(g)) = {}

\* C28: the gates are passed in the order opt-out, no tests, untrusted
\* owner, and the first that applies decides: for a processed group with
\* members kept, an opt-out makes the first and only message the verified
\* "Presubmit tests skipped"; otherwise no tests make it the verified "No
\* tests found"; otherwise the untrusted owner makes it the manual-trigger
\* link; otherwise no message is posted.  So a group with an untrusted
\* owner that opts out or has no tests gets the verified message and no
\* manual-trigger link.
C28_GatePrecedence ==
    \A g \in 1..Len(clLists) :
        (Processed(g) /\ Kept(g) # <<>> /\ RefsParse(Kept(g))) =>
            /\ Cardinality(CallsOf(g, "post")) <= 1
            /\ IF OptsOut(Kept(g))
               THEN /\ FirstOf(g).op = "post" /\ FirstOf(g).verified
                    /\ FirstOf(g).what = "Presubmit tests skipped"
                    /\ CallsOf(g, "LoadConfig") = {}
               ELSE IF ~ConfigLoaded(g) THEN CallsOf(g, "post") = {}
               ELSE IF TestsFor(Kept(g)) = {}
               THEN /\ FirstOf(g).op = "post" /\ FirstOf(g).verified
                    /\ FirstOf(g).what = "No tests found"
               ELSE IF ~Trusted(Kept(g)[Len(Kept(g))].owner)
               THEN /\ FirstOf(g).op = "post" /\ ~FirstOf(g).verified
                    /\ FirstOf(g).what = "manual trigger link"
               ELSE CallsOf(g, "post") = {}
            /\ (Untrusted(Kept(g)) /\ (OptsOut(Kept(g)) \/ NoTestsFor(g)))
                  => (Cardinality(VerifiedPosts(g)) = 1 /\ ManualPosts(g) = {}
                      /\ CICallsOf(g) = {})

\* A group whose one member opts out and has an untrusted owner, in a
\* project with tests, got the verified "Presubmit tests skipped" and no
\* manual-trigger link.
C28_Witness ==
    /\ pc = "done" /\ ret = "nil"
    /\ Len(Kept(1)) = 1 /\ OptsOut(Kept(1)) /\ Untrusted(Kept(1))
    /\ TestsFor(Kept(1)) # {}
    /\ \E i \in Succeeded("post") :
           /\ events[i].group = 1 /\ events[i].verified
           /\ events[i].what = "Presubmit tests skipped"
    /\ ManualPosts(1) = {}

====
